---------------------------- MODULE Spec2Model ----------------------------
(***************************************************************************)
(* Model of the file-system-node server (Express + MongoDB + Socket.IO)    *)
(* with the storage configured (MONGODB_URI set).  The node collection is  *)
(* a sequence of documents in natural (insertion) order; every handler is  *)
(* cut at its awaits, so that concurrent requests and storage faults can   *)
(* fall between two database operations of one handler.                    *)
(***************************************************************************)
EXTENDS Integers, Sequences, FiniteSets, TLC

VARIABLES
    nodes,      \* FileSystemNode collection, documents in natural order
    projects,   \* Project collection: set of [id, isActive]
    reqs,       \* one HTTP request per client: handler position and locals
    pure,       \* state of the hierarchy round trip (pure functions)
    env,        \* process.env.MONGODB_URI and mongoose.connection.readyState
    ui,         \* the browser of each client: the redux state of fileSystemSlice
    editor      \* the browser of each client: the redux state of editorSlice

vars == <<nodes, projects, reqs, pure, env, ui, editor>>

-----------------------------------------------------------------------------
(* Values *)

Null == "null"
Undefined == "undefined"
NL == "\n"

\* Bounds of the model
MaxFlat == 3          \* length of the flat lists fed to the round trip
MaxStack == 4         \* depth of the deleteNodeAndChildren recursion

Clients == {"A", "B"}

RangeOf(s) == {s[i] : i \in 1..Len(s)}

RECURSIVE SeqSum(_)
SeqSum(s) == IF s = <<>> THEN 0 ELSE Head(s) + SeqSum(Tail(s))

\* first index of s satisfying Test, 0 if none
FirstIndex(s, Test(_)) ==
    IF \E i \in 1..Len(s) : Test(s[i])
    THEN CHOOSE i \in 1..Len(s) : Test(s[i]) /\ \A j \in 1..(i-1) : ~Test(s[j])
    ELSE 0

RemoveAt(s, i) == SubSeq(s, 1, i-1) \o SubSeq(s, i+1, Len(s))

-----------------------------------------------------------------------------
(* Content: a string is a sequence of characters; "E2" stands for a        *)
(* character outside ASCII that UTF-8 encodes in two bytes.                *)

Utf8Width(ch) == IF ch = "E2" THEN 2 ELSE 1

calculateFileSizeOneByte(content) == Len(content)

calculateFileSize(content) ==
    SeqSum([i \in 1..Len(content) |-> Utf8Width(content[i])])

\* content.split('\n'): the segments between the separators
RECURSIVE Split(_, _)
Split(content, cur) ==
    IF content = <<>> THEN <<cur>>
    ELSE IF Head(content) = NL THEN <<cur>> \o Split(Tail(content), <<>>)
    ELSE Split(Tail(content), Append(cur, Head(content)))

countLines(content) == Len(Split(content, <<>>))


ABC == <<"a", NL, "b", NL, "c">>
Contents == { <<>>, ABC, <<"E2", NL>> }


-----------------------------------------------------------------------------
(* Documents.  A document carries the schema's fields; a request body or a *)
(* node of a submitted hierarchy is a record without the fields it does    *)
(* not send.                                                               *)

DocFields == {"id", "projectId", "type", "name", "parentId", "content",
              "x", "y", "expanded", "size", "lineCount"}

Types == {"file", "folder"}

\* the schema defaults, applied when a document is constructed
SchemaDefault(f) ==
    CASE f = "content" -> <<>>
      [] f = "parentId" -> Null
      [] f = "x" -> 0
      [] f = "y" -> 0
      [] f = "expanded" -> FALSE
      [] f = "size" -> 0
      [] f = "lineCount" -> 0
      [] OTHER -> Undefined

Has(obj, f) == f \in DOMAIN obj

\* new FileSystemNode(data): keep the schema's fields, fill the defaults
NewDoc(data) ==
    [f \in DocFields |-> IF Has(data, f) THEN data[f] ELSE SchemaDefault(f)]

\* `content || ''`
ContentOrEmpty(obj) == IF Has(obj, "content") THEN obj.content ELSE <<>>

\* mongoose validation on save: required id, projectId, name; type in the enum
ValidDoc(d) ==
    /\ d.id \notin {Undefined, Null, ""}
    /\ d.projectId \notin {Undefined, Null, ""}
    /\ d.type \in Types
    /\ d.name \notin {Undefined, Null, ""}

Key(d) == <<d.id, d.projectId>>

\* the unique index { id: 1, projectId: 1 }
UniqueKeys(docs) ==
    \A i, j \in 1..Len(docs) : Key(docs[i]) = Key(docs[j]) => i = j

Truthy(v) == v \notin {Null, Undefined, ""}

-----------------------------------------------------------------------------
(* buildHierarchy: nodeMap[id] is one object per id (a later document with *)
(* the same id replaces the earlier one); children are pushed in the       *)
(* order of the input.                                                     *)

\* the object nodeMap holds for an id: the last document with that id
Obj(docs, id) ==
    CHOOSE i \in 1..Len(docs) :
        docs[i].id = id /\ \A j \in (i+1)..Len(docs) : docs[j].id # id

InMap(docs, id) == \E i \in 1..Len(docs) : docs[i].id = id

Attached(docs, i) == Truthy(docs[i].parentId) /\ InMap(docs, docs[i].parentId)

Indices(docs) == [i \in 1..Len(docs) |-> i]

\* objects pushed to the children of object k, in push order
ChildObjs(docs, k) ==
    LET pushed == SelectSeq(Indices(docs),
                    LAMBDA i : Attached(docs, i) /\ Obj(docs, docs[i].parentId) = k)
    IN [n \in 1..Len(pushed) |-> Obj(docs, docs[pushed[n]].id)]

RootObjs(docs) ==
    LET pushed == SelectSeq(Indices(docs), LAMBDA i : ~Attached(docs, i))
    IN [n \in 1..Len(pushed) |-> Obj(docs, docs[pushed[n]].id)]

WithChildren(d, kids) ==
    [f \in DOMAIN d \cup {"children"} |-> IF f = "children" THEN kids ELSE d[f]]

\* the nested value the response serialises, object by object
RECURSIVE Render(_, _, _)
Render(docs, k, fuel) ==
    LET kids == ChildObjs(docs, k)
    IN WithChildren(docs[k],
         IF fuel = 0 THEN <<>>
         ELSE [n \in 1..Len(kids) |-> Render(docs, kids[n], fuel - 1)])

buildHierarchy(docs) ==
    LET roots == RootObjs(docs)
    IN [n \in 1..Len(roots) |-> Render(docs, roots[n], Len(docs))]

-----------------------------------------------------------------------------
(* flattenTree: strip children, recompute the file metadata, stamp the     *)
(* parent's id and the project, parents before their descendants.          *)

StripChildren(node) == [f \in DOMAIN node \ {"children"} |-> node[f]]

Stamp(node, parentId, projectId) ==
    LET nodeData == StripChildren(node)
        isFile == Has(nodeData, "type") /\ nodeData.type = "file"
        computed == IF isFile THEN {"size", "lineCount"} ELSE {}
    IN [f \in DOMAIN nodeData \cup {"parentId", "projectId"} \cup computed |->
          CASE f = "parentId" -> parentId
            [] f = "projectId" -> projectId
            [] f = "size" /\ isFile -> calculateFileSize(ContentOrEmpty(nodeData))
            [] f = "lineCount" /\ isFile -> countLines(ContentOrEmpty(nodeData))
            [] OTHER -> nodeData[f]]

\* children && children.length > 0
HasChildren(node) == Has(node, "children") /\ Len(node.children) > 0

RECURSIVE flattenTreeNoParent(_, _, _)
flattenTreeNoParent(treeNodes, parentId, projectId) ==
    IF treeNodes = <<>> THEN <<>>
    ELSE LET node == Head(treeNodes)
         IN <<Stamp(node, Null, projectId)>>
            \o (IF HasChildren(node)
                THEN flattenTreeNoParent(node.children, node.id, projectId)
                ELSE <<>>)
            \o flattenTreeNoParent(Tail(treeNodes), parentId, projectId)

RECURSIVE flattenTree(_, _, _)
flattenTree(treeNodes, parentId, projectId) ==
    IF treeNodes = <<>> THEN <<>>
    ELSE LET node == Head(treeNodes)
         IN <<Stamp(node, parentId, projectId)>>
            \o (IF HasChildren(node)
                THEN flattenTree(node.children, node.id, projectId)
                ELSE <<>>)
            \o flattenTree(Tail(treeNodes), parentId, projectId)

\* shape of a nested value: ids and nesting, nothing else
RECURSIVE Shape(_)
Shape(hier) ==
    [n \in 1..Len(hier) |->
        [id |-> hier[n].id,
         kids |-> IF HasChildren(hier[n]) THEN Shape(hier[n].children) ELSE <<>>]]

RECURSIVE CountNodes(_)
CountNodes(hier) ==
    IF hier = <<>> THEN 0
    ELSE 1 + (IF HasChildren(Head(hier)) THEN CountNodes(Head(hier).children) ELSE 0)
           + CountNodes(Tail(hier))

\* the pairs <<id, id of the enclosing node>> of a nested value
RECURSIVE Nesting(_, _)
Nesting(hier, parentId) ==
    IF hier = <<>> THEN {}
    ELSE {<<Head(hier).id, parentId>>}
         \cup (IF HasChildren(Head(hier))
               THEN Nesting(Head(hier).children, Head(hier).id) ELSE {})
         \cup Nesting(Tail(hier), parentId)

-----------------------------------------------------------------------------
(* The collection after initializeDefaultFileSystem.  The demo files keep  *)
(* their seeded size and lineCount; their text is abbreviated.             *)

AppJsText == <<"a", NL, "b">>
ReadmeText == <<"c">>

SeedDoc(id, projectId, type, name, parentId, x, y, expanded, content, size, lineCount) ==
    [id |-> id, projectId |-> projectId, type |-> type, name |-> name, parentId |-> parentId,
     content |-> content, x |-> x, y |-> y, expanded |-> expanded,
     size |-> size, lineCount |-> lineCount]

defaultNodes ==
    << SeedDoc("root-default", "default-project", "folder", "Project Root", Null, 100, 100, TRUE, <<>>, 0, 0) >>

demoNodes ==
    << SeedDoc("root-demo", "demo-project", "folder", "Demo Root", Null, 100, 100, TRUE, <<>>, 0, 0),
       SeedDoc("src-folder", "demo-project", "folder", "src", "root-demo", 100, 220, FALSE, <<>>, 0, 0),
       SeedDoc("components-folder", "demo-project", "folder", "components", "src-folder", 100, 340, FALSE, <<>>, 0, 0),
       SeedDoc("app-js", "demo-project", "file", "App.js", "src-folder", 300, 260, FALSE, AppJsText, 285, 14),
       SeedDoc("readme-md", "demo-project", "file", "README.md", "root-demo", 300, 140, FALSE, ReadmeText, 512, 19) >>

initializeDefaultFileSystem == defaultNodes \o demoNodes

defaultProjects ==
    { [id |-> "default-project", isActive |-> TRUE],
      [id |-> "demo-project", isActive |-> TRUE] }

-----------------------------------------------------------------------------
(* Requests *)

NoTxn == [open |-> FALSE, delKeys |-> {}, inserts |-> <<>>]

NoDoc == <<>>
IsDoc(d) == DOMAIN d # {}

IdleReq ==
    [op |-> "none", pc |-> "idle", status |-> 0, pid |-> Null, id |-> Null,
     body |-> Null, stack |-> <<>>, found |-> NoDoc, txn |-> NoTxn,
     emit |-> NoDoc, out |-> Null, last |-> "idle", wrote |-> 0, pre |-> <<>>]

Startable(c) == reqs[c].pc \in {"idle", "done"}

AllIdle == \A c \in Clients : Startable(c)

\* a request enters its handler; pre remembers the collection at that moment
Begin(c, op, pc, pid, id, body) ==
    [IdleReq EXCEPT !.op = op, !.pc = pc, !.pid = pid, !.id = id,
                    !.body = body, !.pre = nodes]

\* res.status(status).json(out); last keeps the position the answer came from
Respond(r, status, out) ==
    [r EXCEPT !.pc = "done", !.status = status, !.out = out, !.last = r.pc]

Answered(c, op, status) ==
    reqs[c].op = op /\ reqs[c].pc = "done" /\ reqs[c].status = status

\* Model.find(filter) without a sort: the matches in natural order
Find(docs, Test(_)) == SelectSeq(docs, Test)

IdsOf(docs) == [i \in 1..Len(docs) |-> docs[i].id]

\* MONGODB_URI is set and mongoose.connect succeeded
Connected == [MONGODB_URI |-> TRUE, readyState |-> 1]

\* initialState of the slice; log remembers the toggles the client dispatched,
\* fetches the arguments of the fetchFileSystemTree thunks that are pending,
\* route the projectId of the URL the canvas is mounted for
initialState ==
    [nodes |-> <<>>, currentProjectId |-> Null, loading |-> FALSE,
     log |-> <<>>, fetches |-> <<>>, route |-> Null]

\* the thunk of the editor that is pending, if any, with its arguments;
\* edited: the content was changed while it is pending
NoThunk == [kind |-> "none", id |-> Null, content |-> <<>>, edited |-> FALSE]

\* initialState of the editor slice, with the pending thunk beside it
editorInitialState ==
    [isOpen |-> FALSE, file |-> NoDoc, content |-> <<>>, isDirty |-> FALSE,
     loading |-> FALSE, thunk |-> NoThunk]

InitStore ==
    /\ nodes = initializeDefaultFileSystem
    /\ projects = defaultProjects
    /\ reqs = [c \in Clients |-> IdleReq]
    /\ env = Connected
    /\ ui = [c \in Clients |-> initialState]
    /\ editor = [c \in Clients |-> editorInitialState]

\* a database call rejects: a fault of this call, or no connection (the
\* buffered command times out)
Rejects(fault) == fault \/ env.readyState # 1

NoPure == [pc |-> "off", flat |-> <<>>, h1 |-> <<>>, flat2 |-> <<>>, h2 |-> <<>>]

Init == InitStore /\ pure = NoPure

-----------------------------------------------------------------------------
(* POST /api/projects : save the project, then its root folder             *)

rootNode(projectId) ==
    NewDoc([id |-> "root-" \o projectId, projectId |-> projectId,
            type |-> "folder", name |-> "Project Root", parentId |-> Null,
            x |-> 100, y |-> 100, expanded |-> TRUE])

CreateProject(c, projectId, fault) ==
    /\ Startable(c)
    /\ LET r == Begin(c, "createProject", "proj_root", projectId, Null, Null)
           dup == \E p \in projects : p.id = projectId
       IN IF ~env.MONGODB_URI
          THEN /\ reqs' = [reqs EXCEPT ![c] = Respond(r, 201, projectId)]
               /\ UNCHANGED projects
          ELSE IF Rejects(fault) \/ dup
          THEN /\ reqs' = [reqs EXCEPT ![c] = Respond(r, 500, Null)]
               /\ UNCHANGED projects
          ELSE /\ projects' = projects \cup {[id |-> projectId, isActive |-> TRUE]}
               /\ reqs' = [reqs EXCEPT ![c] = r]
    /\ UNCHANGED <<nodes, pure, env, ui, editor>>

CreateProjectRoot(c) ==
    /\ reqs[c].pc = "proj_root"
    /\ LET d == rootNode(reqs[c].pid)
           dup == \E i \in 1..Len(nodes) : Key(nodes[i]) = Key(d)
       IN IF dup
          THEN /\ reqs' = [reqs EXCEPT ![c] = Respond(@, 500, Null)]
               /\ UNCHANGED nodes
          ELSE /\ nodes' = Append(nodes, d)
               /\ reqs' = [reqs EXCEPT ![c] = Respond(@, 201, reqs[c].pid)]
    /\ UNCHANGED <<projects, pure, env, ui, editor>>

(* DELETE /api/projects/:projectId : mark inactive, then delete its nodes  *)

DeleteProject(c, projectId, fault) ==
    /\ Startable(c)
    /\ LET r == Begin(c, "deleteProject", "proj_nodes", projectId, Null, Null)
       IN IF ~env.MONGODB_URI
          THEN /\ reqs' = [reqs EXCEPT ![c] = Respond(r, 200, Null)]
               /\ UNCHANGED projects
          ELSE IF Rejects(fault)
          THEN /\ reqs' = [reqs EXCEPT ![c] = Respond(r, 500, Null)]
               /\ UNCHANGED projects
          ELSE /\ projects' = {IF p.id = projectId
                               THEN [p EXCEPT !.isActive = FALSE] ELSE p : p \in projects}
               /\ reqs' = [reqs EXCEPT ![c] = r]
    /\ UNCHANGED <<nodes, pure, env, ui, editor>>

DeleteProjectNodes(c) ==
    /\ reqs[c].pc = "proj_nodes"
    /\ nodes' = SelectSeq(nodes, LAMBDA d : d.projectId # reqs[c].pid)
    /\ reqs' = [reqs EXCEPT ![c] = Respond(@, 200, Null)]
    /\ UNCHANGED <<projects, pure, env, ui, editor>>

(* GET /api/projects/:projectId/nodes                                      *)

\* the literals the handler answers with when MONGODB_URI is not set
mockNodes ==
    << [id |-> "root-demo", projectId |-> "demo-project", type |-> "folder",
        name |-> "Demo Root", x |-> 100, y |-> 100, expanded |-> TRUE,
        children |->
          << [id |-> "src-folder", projectId |-> "demo-project", type |-> "folder",
              name |-> "src", parentId |-> "root-demo", x |-> 100, y |-> 220,
              expanded |-> FALSE,
              children |->
                << [id |-> "app-js", projectId |-> "demo-project", type |-> "file",
                    name |-> "App.js", content |-> AppJsText,
                    parentId |-> "src-folder", x |-> 300, y |-> 260, size |-> 285] >>],
             [id |-> "readme-md", projectId |-> "demo-project", type |-> "file",
              name |-> "README.md", content |-> ReadmeText,
              parentId |-> "root-demo", x |-> 300, y |-> 140, size |-> 512] >>] >>

mockList(projectId) ==
    IF projectId = "demo-project" THEN mockNodes
    ELSE << [id |-> "root-" \o projectId, projectId |-> projectId, type |-> "folder",
             name |-> "Project Root", x |-> 100, y |-> 100, expanded |-> TRUE,
             children |-> <<>>] >>

ListNodes(c, projectId, fault) ==
    /\ Startable(c)
    /\ LET r == Begin(c, "list", "done", projectId, Null, Null)
           found == Find(nodes, LAMBDA d : d.projectId = projectId)
       IN reqs' = [reqs EXCEPT ![c] =
                     IF ~env.MONGODB_URI THEN Respond(r, 200, mockList(projectId))
                     ELSE IF Rejects(fault) THEN Respond(r, 500, Null)
                     ELSE Respond(r, 200, buildHierarchy(found))]
    /\ UNCHANGED <<nodes, projects, pure, env, ui, editor>>

(* POST /api/projects/:projectId/node : the body is stored as sent         *)

WithProject(nodeData, projectId) ==
    [f \in DOMAIN nodeData \cup {"projectId"} |->
        IF f = "projectId" THEN projectId ELSE nodeData[f]]

CreateNode(c, projectId, nodeData, fault) ==
    /\ Startable(c)
    /\ LET r == Begin(c, "createNode", "done", projectId, nodeData.id, nodeData)
           newNode == NewDoc(WithProject(nodeData, projectId))
           ok == /\ ~Rejects(fault)
                 /\ ValidDoc(newNode)
                 /\ \A i \in 1..Len(nodes) : Key(nodes[i]) # Key(newNode)
       IN IF ~env.MONGODB_URI
          THEN /\ reqs' = [reqs EXCEPT ![c] =
                             Respond(r, 201, WithProject(nodeData, projectId))]
               /\ UNCHANGED nodes
          ELSE IF ok
          THEN /\ nodes' = Append(nodes, newNode)
               /\ reqs' = [reqs EXCEPT ![c] = Respond(r, 201, newNode)]
          ELSE /\ reqs' = [reqs EXCEPT ![c] = Respond(r, 500, Null)]
               /\ UNCHANGED nodes
    /\ UNCHANGED <<projects, pure, env, ui, editor>>

-----------------------------------------------------------------------------
(* DELETE /api/node/:id : the handler registered first answers every       *)
(* request; it looks the node up by id alone, then deleteNodeAndChildren   *)
(* walks the children by parentId and deletes document by document.        *)

Frame(nodeId) == [nodeId |-> nodeId, kids |-> <<>>]

\* after a frame's own awaits: descend into the next child, or delete the node
Descend(stack) ==
    LET top == stack[Len(stack)]
    IN IF top.kids # <<>>
       THEN [stack |-> Append([stack EXCEPT ![Len(stack)].kids = Tail(top.kids)],
                              Frame(Head(top.kids))),
             pc |-> "del_children"]
       ELSE [stack |-> stack, pc |-> "del_one"]

DeleteNode(c, id, fault) ==
    /\ Startable(c)
    /\ LET r == Begin(c, "deleteNode", "del_children", Null, id, Null)
           at == FirstIndex(nodes, LAMBDA d : d.id = id)
       IN reqs' = [reqs EXCEPT ![c] =
                     IF ~env.MONGODB_URI THEN Respond(r, 200, id)
                     ELSE IF Rejects(fault) THEN Respond(r, 500, Null)
                     ELSE IF at = 0 THEN Respond(r, 404, Null)
                     ELSE [r EXCEPT !.found = nodes[at], !.stack = <<Frame(id)>>]]
    /\ UNCHANGED <<nodes, projects, pure, env, ui, editor>>

\* const children = await FileSystemNode.find({ parentId: nodeId })
DeleteFindChildren(c) ==
    /\ reqs[c].pc = "del_children"
    /\ LET stack == reqs[c].stack
           top == stack[Len(stack)]
           children == IdsOf(Find(nodes, LAMBDA d : d.parentId = top.nodeId))
           next == Descend([stack EXCEPT ![Len(stack)].kids = children])
       IN /\ Len(next.stack) <= MaxStack
          /\ reqs' = [reqs EXCEPT ![c].stack = next.stack, ![c].pc = next.pc]
    /\ UNCHANGED <<nodes, projects, pure, env, ui, editor>>

deleteOneKeep(docs, id) == docs

\* deleteOne({ id }): the first document with that id, whatever its project
deleteOne(docs, id) ==
    LET at == FirstIndex(docs, LAMBDA d : d.id = id)
    IN IF at = 0 THEN docs ELSE RemoveAt(docs, at)

\* await FileSystemNode.deleteOne({ id: nodeId }), then back in the caller
DeleteOne(c) ==
    /\ reqs[c].pc = "del_one"
    /\ LET stack == reqs[c].stack
           top == stack[Len(stack)]
           rest == SubSeq(stack, 1, Len(stack) - 1)
       IN /\ nodes' = deleteOne(nodes, top.nodeId)
          /\ reqs' = [reqs EXCEPT ![c].stack = IF rest = <<>> THEN rest ELSE Descend(rest).stack,
                                  ![c].pc = IF rest = <<>> THEN "del_emit" ELSE Descend(rest).pc]
    /\ UNCHANGED <<projects, pure, env, ui, editor>>

DeleteEmit(c) ==
    /\ reqs[c].pc = "del_emit"
    /\ reqs' = [reqs EXCEPT ![c] =
                  Respond([@ EXCEPT !.emit = [ev |-> "node-deleted", id |-> reqs[c].id,
                                              projectId |-> reqs[c].found.projectId]],
                          200, reqs[c].id)]
    /\ UNCHANGED <<nodes, projects, pure, env, ui, editor>>

-----------------------------------------------------------------------------
(* POST /api/projects/:projectId/tree : deleteMany and insertMany run in   *)
(* one session; what a session writes reaches the collection at            *)
(* commitTransaction, and abortTransaction discards it.                    *)

\* request bodies: { nodes: [...] } or a body whose nodes is no array
TreeBody(tree) == [isArray |-> TRUE, nodes |-> tree]
NotArray == [isArray |-> FALSE]

KeysOf(docs) == {Key(docs[i]) : i \in 1..Len(docs)}

deleteManyNoSession(docs, projectId) ==
    SelectSeq(docs, LAMBDA d : d.projectId # projectId)

\* deleteMany({ projectId }, { session }): the collection as others see it
deleteManyInSession(docs, projectId) == docs

SaveTree(c, projectId, body, fault) ==
    /\ Startable(c)
    /\ LET r == Begin(c, "saveTree", "tree_insert", projectId, Null, body)
           mine == Find(nodes, LAMBDA d : d.projectId = projectId)
       IN IF ~body.isArray
          THEN /\ reqs' = [reqs EXCEPT ![c] = Respond(r, 400, Null)]
               /\ UNCHANGED nodes
          ELSE IF ~env.MONGODB_URI
          THEN /\ reqs' = [reqs EXCEPT ![c] =
                             Respond(r, 200, [nodeCount |-> Len(body.nodes)])]
               /\ UNCHANGED nodes
          ELSE IF Rejects(fault)
          THEN /\ reqs' = [reqs EXCEPT ![c] = Respond(r, 500, Null)]
               /\ UNCHANGED nodes
          ELSE /\ reqs' = [reqs EXCEPT ![c] =
                             [r EXCEPT !.txn = [open |-> TRUE, delKeys |-> KeysOf(mine),
                                                inserts |-> <<>>]]]
               /\ nodes' = deleteManyInSession(nodes, projectId)
    /\ UNCHANGED <<projects, pure, env, ui, editor>>

ConflictsNone(docs, txn, newDocs) == FALSE

\* documents outside the session's deletions that hold one of these keys
Conflicts(docs, txn, newDocs) ==
    \E i \in 1..Len(docs) :
        Key(docs[i]) \notin txn.delKeys /\ Key(docs[i]) \in KeysOf(newDocs)

\* flattenTree(nodes); await FileSystemNode.insertMany(flatNodes, { session })
SaveTreeInsert(c) ==
    /\ reqs[c].pc = "tree_insert"
    /\ LET flatNodes == flattenTree(reqs[c].body.nodes, Null, reqs[c].pid)
           newDocs == [i \in 1..Len(flatNodes) |-> NewDoc(flatNodes[i])]
           ok == /\ \A i \in 1..Len(newDocs) : ValidDoc(newDocs[i])
                 /\ UniqueKeys(newDocs)
                 /\ ~Conflicts(nodes, reqs[c].txn, newDocs)
       IN reqs' = [reqs EXCEPT ![c] =
                     IF ok THEN [@ EXCEPT !.txn.inserts = newDocs, !.pc = "tree_commit"]
                     ELSE Respond([@ EXCEPT !.txn = NoTxn], 500, Null)]
    /\ UNCHANGED <<nodes, projects, pure, env, ui, editor>>

commitKeepOld(docs, txn) == docs \o txn.inserts

\* the collection once the session's writes are applied
commitTransaction(docs, txn) ==
    SelectSeq(docs, LAMBDA d : Key(d) \notin txn.delKeys) \o txn.inserts

SaveTreeCommit(c) ==
    /\ reqs[c].pc = "tree_commit"
    /\ IF Conflicts(nodes, reqs[c].txn, reqs[c].txn.inserts)
       THEN /\ reqs' = [reqs EXCEPT ![c] = Respond([@ EXCEPT !.txn = NoTxn], 500, Null)]
            /\ UNCHANGED nodes
       ELSE /\ nodes' = commitTransaction(nodes, reqs[c].txn)
            /\ reqs' = [reqs EXCEPT ![c].pc = "tree_emit"]
    /\ UNCHANGED <<projects, pure, env, ui, editor>>

SaveTreeEmit(c) ==
    /\ reqs[c].pc = "tree_emit"
    /\ LET flat == reqs[c].txn.inserts
       IN reqs' = [reqs EXCEPT ![c] =
                     Respond([@ EXCEPT !.emit = [ev |-> "tree-updated",
                                                 projectId |-> reqs[c].pid,
                                                 nodeCount |-> Len(flat)]],
                             200,
                             [totalNodes |-> Len(flat),
                              totalFiles |-> Len(SelectSeq(flat, LAMBDA d : d.type = "file")),
                              totalFolders |-> Len(SelectSeq(flat, LAMBDA d : d.type = "folder"))])]
    /\ UNCHANGED <<nodes, projects, pure, env, ui, editor>>

-----------------------------------------------------------------------------
(* PATCH /api/node/:id/position : findOneAndUpdate({ id }, { x, y })       *)

UpdateFirst(docs, Test(_), Change(_)) ==
    LET at == FirstIndex(docs, Test)
    IN IF at = 0 THEN docs ELSE [docs EXCEPT ![at] = Change(docs[at])]

setPositionXOnly(d, x, y) == [d EXCEPT !.x = x]

setPositionOverwrite(d, x, y) ==
    [d EXCEPT !.x = x, !.y = y, !.expanded = SchemaDefault("expanded")]

\* the update document { x, y, updatedAt }
setPosition(d, x, y) == [d EXCEPT !.x = x, !.y = y]

\* wrote orders the writes that reached storage: 2 the latest, 1 an earlier one
Earlier(r) == [r EXCEPT !.wrote = IF r.wrote = 2 THEN 1 ELSE r.wrote]

UpdatePosition(c, id, x, y, fault) ==
    /\ Startable(c)
    /\ LET r == Begin(c, "updatePosition", "pos_emit", Null, id, [x |-> x, y |-> y])
           at == FirstIndex(nodes, LAMBDA d : d.id = id)
       IN IF ~env.MONGODB_URI
          THEN /\ reqs' = [reqs EXCEPT ![c] = Respond(r, 200, [id |-> id, x |-> x, y |-> y])]
               /\ UNCHANGED nodes
          ELSE IF Rejects(fault) \/ at = 0
          THEN /\ reqs' = [reqs EXCEPT ![c] =
                             Respond(r, IF Rejects(fault) THEN 500 ELSE 404, Null)]
               /\ UNCHANGED nodes
          ELSE /\ nodes' = UpdateFirst(nodes, LAMBDA d : d.id = id,
                                       LAMBDA d : setPosition(d, x, y))
               /\ reqs' = [o \in Clients |->
                             IF o = c THEN [r EXCEPT !.found = nodes'[at], !.wrote = 2]
                             ELSE Earlier(reqs[o])]
    /\ UNCHANGED <<projects, pure, env, ui, editor>>

\* io.emit('node-position-updated', { id, x, y })
UpdatePositionEmit(c) ==
    /\ reqs[c].pc = "pos_emit"
    /\ reqs' = [reqs EXCEPT ![c].emit = [ev |-> "node-position-updated", id |-> reqs[c].id,
                                         x |-> reqs[c].body.x, y |-> reqs[c].body.y],
                            ![c].pc = "pos_respond"]
    /\ UNCHANGED <<nodes, projects, pure, env, ui, editor>>

UpdatePositionRespond(c) ==
    /\ reqs[c].pc = "pos_respond"
    /\ reqs' = [reqs EXCEPT ![c] = Respond(@, 200, reqs[c].found)]
    /\ UNCHANGED <<nodes, projects, pure, env, ui, editor>>

(* POST /api/file/:id : findOneAndUpdate({ id, type: 'file' }, ...)        *)

SaveFile(c, id, body, fault) ==
    /\ Startable(c)
    /\ LET r == Begin(c, "saveFile", "file_emit", Null, id, body)
           at == FirstIndex(nodes, LAMBDA d : d.id = id /\ d.type = "file")
           thrown == Rejects(fault) \/ ~Has(body, "content")
       IN IF ~env.MONGODB_URI
          THEN /\ reqs' = [reqs EXCEPT ![c] = Respond(r, 200, [id |-> id])]
               /\ UNCHANGED nodes
          ELSE IF thrown \/ at = 0
          THEN \* Buffer.byteLength(undefined) throws before the query is sent
               /\ reqs' = [reqs EXCEPT ![c] = Respond(r, IF thrown THEN 500 ELSE 404, Null)]
               /\ UNCHANGED nodes
          ELSE /\ nodes' = UpdateFirst(nodes, LAMBDA d : d.id = id /\ d.type = "file",
                               LAMBDA d : [d EXCEPT !.content = body.content,
                                                    !.size = calculateFileSize(body.content),
                                                    !.lineCount = countLines(body.content)])
               /\ reqs' = [reqs EXCEPT ![c] = [r EXCEPT !.found = nodes'[at]]]
    /\ UNCHANGED <<projects, pure, env, ui, editor>>

SaveFileEmit(c) ==
    /\ reqs[c].pc = "file_emit"
    /\ reqs' = [reqs EXCEPT ![c] =
                  Respond([@ EXCEPT !.emit = [ev |-> "file-content-updated", id |-> reqs[c].id]],
                          200, reqs[c].found)]
    /\ UNCHANGED <<nodes, projects, pure, env, ui, editor>>

(* PATCH /api/node/:id/expanded :                                          *)
(* findOneAndUpdate({ id, type: 'folder' }, { expanded })                  *)

\* api.patch(`/node/${id}/expanded`, { expanded }): the request is on its way
PatchExpanded(c, id, expanded) ==
    /\ Startable(c)
    /\ reqs' = [reqs EXCEPT ![c] =
                  Begin(c, "updateExpanded", "exp_recv", Null, id, [expanded |-> expanded])]
    /\ UNCHANGED <<nodes, projects, pure, env, ui, editor>>

\* the update document { expanded, updatedAt }
setExpanded(d, expanded) == [d EXCEPT !.expanded = expanded]

UpdateExpanded(c, fault) ==
    /\ reqs[c].pc = "exp_recv"
    /\ LET r == reqs[c]
           at == FirstIndex(nodes, LAMBDA d : d.id = r.id /\ d.type = "folder")
       IN IF ~env.MONGODB_URI
          THEN /\ reqs' = [reqs EXCEPT ![c] =
                             Respond(r, 200, [id |-> r.id, expanded |-> r.body.expanded])]
               /\ UNCHANGED nodes
          ELSE IF Rejects(fault) \/ at = 0
          THEN /\ reqs' = [reqs EXCEPT ![c] =
                             Respond(r, IF Rejects(fault) THEN 500 ELSE 404, Null)]
               /\ UNCHANGED nodes
          ELSE /\ nodes' = UpdateFirst(nodes, LAMBDA d : d.id = r.id /\ d.type = "folder",
                                       LAMBDA d : setExpanded(d, r.body.expanded))
               /\ reqs' = [reqs EXCEPT ![c] = [r EXCEPT !.found = nodes'[at], !.pc = "exp_emit"]]
    /\ UNCHANGED <<projects, pure, env, ui, editor>>

\* io.emit('folder-expanded-updated', { id, expanded }); res.json(...)
UpdateExpandedEmit(c) ==
    /\ reqs[c].pc = "exp_emit"
    /\ reqs' = [reqs EXCEPT ![c] =
                  Respond([@ EXCEPT !.emit = [ev |-> "folder-expanded-updated", id |-> reqs[c].id,
                                              expanded |-> reqs[c].body.expanded]],
                          200, reqs[c].found)]
    /\ UNCHANGED <<nodes, projects, pure, env, ui, editor>>

-----------------------------------------------------------------------------
(* The browser: fileSystemSlice.  The tree a client shows is the answer of *)
(* its last list; no socket event reaches the slice.                       *)

SetField(obj, f, v) == [g \in DOMAIN obj \cup {f} |-> IF g = f THEN v ELSE obj[g]]

\* node.expanded read as a condition: undefined is falsy
Expanded(node) == Has(node, "expanded") /\ node.expanded

\* findNode of toggleFolderAPI: depth first, the first node with the id
RECURSIVE findNode(_, _)
findNode(treeNodes, id) ==
    IF treeNodes = <<>> THEN NoDoc
    ELSE LET node == Head(treeNodes)
             below == IF Has(node, "children") THEN findNode(node.children, id) ELSE NoDoc
         IN IF node.id = id THEN node
            ELSE IF IsDoc(below) THEN below
            ELSE findNode(Tail(treeNodes), id)

\* the reducer toggleFolder: `return` leaves the loop of the level it is in
RECURSIVE toggleNodeRecursive(_, _)
toggleNodeRecursive(treeNodes, id) ==
    IF treeNodes = <<>> THEN <<>>
    ELSE LET node == Head(treeNodes)
         IN IF node.id = id /\ node.type = "folder"
            THEN <<SetField(node, "expanded", ~Expanded(node))>> \o Tail(treeNodes)
            ELSE << IF Has(node, "children")
                    THEN SetField(node, "children", toggleNodeRecursive(node.children, id))
                    ELSE node >>
                 \o toggleNodeRecursive(Tail(treeNodes), id)

\* fetchFileSystemTree.fulfilled: the answer of the list becomes the tree
FetchFulfilled(c) ==
    /\ reqs[c].op = "list" /\ reqs[c].pc = "done" /\ reqs[c].status = 200
    /\ ui[c].nodes # reqs[c].out \/ ui[c].currentProjectId # reqs[c].pid
    /\ ui' = [ui EXCEPT ![c].nodes = reqs[c].out, ![c].currentProjectId = reqs[c].pid,
                         ![c].log = <<>>]
    /\ UNCHANGED <<nodes, projects, reqs, pure, env, editor>>

\* what storage holds for the folder the client shows
StoredExpanded(projectId, id) ==
    LET at == FirstIndex(nodes, LAMBDA d : d.id = id /\ d.projectId = projectId)
    IN IF at = 0 THEN [present |-> FALSE, expanded |-> FALSE]
       ELSE [present |-> TRUE, expanded |-> nodes[at].expanded]

\* log keeps the last two toggles: the flag shown and stored before each,
\* and whether the request before it was answered 200
Logged(log, entry) == IF Len(log) = 2 THEN <<log[2], entry>> ELSE Append(log, entry)

\* toggleFolderAPI: flip the local copy, then PATCH the flipped value
ToggleFolderAPI(c, nodeId) ==
    /\ Startable(c)
    /\ LET node == findNode(ui[c].nodes, nodeId)
       IN /\ IsDoc(node)
          /\ node.type = "folder"
          /\ LET newExpanded == ~Expanded(node)
                 entry == [id |-> nodeId, shown |-> Expanded(node),
                           stored |-> StoredExpanded(ui[c].currentProjectId, nodeId),
                           prevOk |-> Answered(c, "updateExpanded", 200)]
             IN /\ ui' = [ui EXCEPT ![c].nodes = toggleNodeRecursive(@, nodeId),
                                    ![c].log = Logged(@, entry)]
                /\ reqs' = [reqs EXCEPT ![c] =
                              Begin(c, "updateExpanded", "exp_recv", Null, nodeId,
                                    [expanded |-> newExpanded])]
    /\ UNCHANGED <<nodes, projects, pure, env, editor>>

-----------------------------------------------------------------------------
(* The routes without a project.  POST /api/tree and POST /api/node are    *)
(* registered once in the project server; GET /api/tree is the route of    *)
(* the single-tree server.                                                 *)

Field(obj, f) == IF Has(obj, f) THEN obj[f] ELSE Undefined

\* the literal of the single-tree server, abbreviated to one folder and file
mockFileSystemData ==
    [id |-> "root", type |-> "folder", name |-> "Home", x |-> 100, y |-> 100,
     expanded |-> TRUE,
     children |->
       << [id |-> "folder1", type |-> "folder", name |-> "Project A",
           parentId |-> "root", x |-> 400, y |-> 200, expanded |-> FALSE,
           children |->
             << [id |-> "file1", type |-> "file", name |-> "index.js",
                 content |-> AppJsText, parentId |-> "folder1",
                 x |-> 700, y |-> 300, size |-> 285] >>] >>]

\* a Map keyed by id: the same objects and push order as buildHierarchy
buildTree(docs) ==
    LET roots == RootObjs(docs)
    IN [n \in 1..Len(roots) |-> Render(docs, roots[n], Len(docs))]

\* GET /api/tree
GetTree(c, fault) ==
    /\ Startable(c)
    /\ LET r == Begin(c, "getTree", "done", Null, Null, Null)
       IN reqs' = [reqs EXCEPT ![c] =
                     IF env.readyState = 1
                     THEN IF fault THEN Respond(r, 500, Null)
                          ELSE IF nodes = <<>> THEN Respond(r, 200, <<mockFileSystemData>>)
                          ELSE Respond(r, 200, buildTree(nodes))
                     ELSE Respond(r, 200, <<mockFileSystemData>>)]
    /\ UNCHANGED <<nodes, projects, pure, env, ui, editor>>

\* the flattenTree of POST /api/tree: no project is stamped
StampLegacy(node, parentId) ==
    LET nodeData == StripChildren(node)
        isFile == Has(nodeData, "type") /\ nodeData.type = "file"
        computed == IF isFile THEN {"size", "lineCount"} ELSE {}
    IN [f \in DOMAIN nodeData \cup {"parentId"} \cup computed |->
          CASE f = "parentId" -> parentId
            [] f = "size" /\ isFile -> calculateFileSize(ContentOrEmpty(nodeData))
            [] f = "lineCount" /\ isFile -> countLines(ContentOrEmpty(nodeData))
            [] OTHER -> nodeData[f]]

RECURSIVE flattenTreeLegacy(_, _)
flattenTreeLegacy(treeNodes, parentId) ==
    IF treeNodes = <<>> THEN <<>>
    ELSE LET node == Head(treeNodes)
         IN <<StampLegacy(node, parentId)>>
            \o (IF HasChildren(node) THEN flattenTreeLegacy(node.children, node.id) ELSE <<>>)
            \o flattenTreeLegacy(Tail(treeNodes), parentId)

\* POST /api/tree : deleteMany({}, { session }) covers every project
LegacySaveTree(c, body, fault) ==
    /\ Startable(c)
    /\ LET r == Begin(c, "legacySaveTree", "ltree_insert", Null, Null, body)
       IN reqs' = [reqs EXCEPT ![c] =
                     IF ~body.isArray THEN Respond(r, 400, Null)
                     ELSE IF env.readyState # 1 THEN Respond(r, 200, Null)
                     ELSE IF fault THEN Respond(r, 500, Null)
                     ELSE [r EXCEPT !.txn = [open |-> TRUE, delKeys |-> KeysOf(nodes),
                                             inserts |-> <<>>]]]
    /\ UNCHANGED <<nodes, projects, pure, env, ui, editor>>

LegacyTreeInsert(c) ==
    /\ reqs[c].pc = "ltree_insert"
    /\ LET flatNodes == flattenTreeLegacy(reqs[c].body.nodes, Null)
           newDocs == [i \in 1..Len(flatNodes) |-> NewDoc(flatNodes[i])]
           ok == /\ \A i \in 1..Len(newDocs) : ValidDoc(newDocs[i])
                 /\ UniqueKeys(newDocs)
                 /\ ~Conflicts(nodes, reqs[c].txn, newDocs)
       IN reqs' = [reqs EXCEPT ![c] =
                     IF ok THEN [@ EXCEPT !.txn.inserts = newDocs, !.pc = "ltree_commit"]
                     ELSE Respond([@ EXCEPT !.txn = NoTxn], 500, Null)]
    /\ UNCHANGED <<nodes, projects, pure, env, ui, editor>>

LegacyTreeCommit(c) ==
    /\ reqs[c].pc = "ltree_commit"
    /\ IF Conflicts(nodes, reqs[c].txn, reqs[c].txn.inserts)
       THEN /\ reqs' = [reqs EXCEPT ![c] = Respond([@ EXCEPT !.txn = NoTxn], 500, Null)]
            /\ UNCHANGED nodes
       ELSE /\ nodes' = commitTransaction(nodes, reqs[c].txn)
            /\ reqs' = [reqs EXCEPT ![c].pc = "ltree_emit"]
    /\ UNCHANGED <<projects, pure, env, ui, editor>>

LegacyTreeEmit(c) ==
    /\ reqs[c].pc = "ltree_emit"
    /\ LET flat == reqs[c].txn.inserts
       IN reqs' = [reqs EXCEPT ![c] =
                     Respond([@ EXCEPT !.emit = [ev |-> "tree-updated", nodeCount |-> Len(flat)]],
                             200, [totalNodes |-> Len(flat)])]
    /\ UNCHANGED <<nodes, projects, pure, env, ui, editor>>

\* POST /api/node : validates the body; the document it builds has no projectId
CreateNodeLegacy(c, body, fault) ==
    /\ Startable(c)
    /\ LET r == Begin(c, "createNodeLegacy", "done", Null, Field(body, "id"), body)
           name == Field(body, "name")
           type == Field(body, "type")
           existingNode ==
               \E i \in 1..Len(nodes) :
                   /\ nodes[i].name = name
                   /\ Has(body, "parentId") => nodes[i].parentId = body.parentId
           nodeData == [f \in {"id", "type", "name", "x", "y"}
                              \cup (IF Has(body, "parentId") THEN {"parentId"} ELSE {})
                              \cup (IF type = "file" THEN {"content", "size", "lineCount"} ELSE {})
                              \cup (IF type = "folder" THEN {"expanded"} ELSE {}) |->
                          CASE f \in {"x", "y"} -> IF Has(body, f) THEN body[f] ELSE 0
                            [] f = "content" -> ContentOrEmpty(body)
                            [] f = "size" -> calculateFileSize(ContentOrEmpty(body))
                            [] f = "lineCount" -> countLines(ContentOrEmpty(body))
                            [] f = "expanded" -> FALSE
                            [] OTHER -> body[f]]
           newNode == NewDoc(nodeData)
           status ==
               IF ~Truthy(Field(body, "id")) \/ ~Truthy(type) \/ ~Truthy(name) THEN 400
               ELSE IF type \notin Types THEN 400
               ELSE IF env.readyState # 1 THEN 201
               ELSE IF fault THEN 500
               ELSE IF existingNode THEN 409
               ELSE IF ~ValidDoc(newNode) THEN 500
               ELSE IF \E i \in 1..Len(nodes) : Key(nodes[i]) = Key(newNode) THEN 409
               ELSE 0
       IN IF status # 0
          THEN /\ reqs' = [reqs EXCEPT ![c] = Respond(r, status, Null)]
               /\ UNCHANGED nodes
          ELSE /\ nodes' = Append(nodes, newNode)
               /\ reqs' = [reqs EXCEPT ![c] =
                             Respond([r EXCEPT !.emit = [ev |-> "node-created", id |-> newNode.id]],
                                     201, newNode)]
    /\ UNCHANGED <<projects, pure, env, ui, editor>>

(* io.emit throws in a handler that has written: the handler's catch       *)
(* answers 500 (the tree handlers call abortTransaction on the committed   *)
(* session first, which rejects and rolls nothing back).                   *)

Emitting == {"del_emit", "tree_emit", "ltree_emit", "pos_emit", "exp_emit", "file_emit"}

EmitThrows(c) ==
    /\ reqs[c].pc \in Emitting
    /\ reqs' = [reqs EXCEPT ![c] = Respond([@ EXCEPT !.txn = NoTxn], 500, Null)]
    /\ UNCHANGED <<nodes, projects, pure, env, ui, editor>>

(* A database call of a handler in progress rejects: the handler's catch   *)
(* answers 500; the tree handler aborts its transaction first.             *)

Awaiting == {"proj_root", "proj_nodes", "del_children", "del_one", "tree_insert",
             "tree_commit", "ltree_insert", "ltree_commit"}

StorageFault(c) ==
    /\ reqs[c].pc \in Awaiting
    /\ reqs' = [reqs EXCEPT ![c] = Respond([@ EXCEPT !.txn = NoTxn], 500, Null)]
    /\ UNCHANGED <<nodes, projects, pure, env, ui, editor>>

-----------------------------------------------------------------------------
(* Round trip of the pure functions: assemble, flatten (as the tree        *)
(* handler stores it), assemble again.                                     *)

PureAssemble ==
    /\ pure.pc = "flat"
    /\ pure' = [pure EXCEPT !.h1 = buildHierarchy(pure.flat), !.pc = "h1"]
    /\ UNCHANGED <<nodes, projects, reqs, env, ui, editor>>

PureFlatten ==
    /\ pure.pc = "h1"
    /\ LET flatNodes == flattenTree(pure.h1, Null, "default-project")
       IN pure' = [pure EXCEPT !.flat2 = [i \in 1..Len(flatNodes) |-> NewDoc(flatNodes[i])],
                               !.pc = "flat2"]
    /\ UNCHANGED <<nodes, projects, reqs, env, ui, editor>>

PureReassemble ==
    /\ pure.pc = "flat2"
    /\ pure' = [pure EXCEPT !.h2 = buildHierarchy(pure.flat2), !.pc = "h2"]
    /\ UNCHANGED <<nodes, projects, reqs, env, ui, editor>>

-----------------------------------------------------------------------------
(* Inputs *)

ProjectIds == {"default-project", "demo-project"}
NewProjectIds == {"project-1"}

FileBody(id, parentId, content) ==
    [id |-> id, type |-> "file", name |-> "notes.txt", parentId |-> parentId,
     content |-> content]

FolderBody(id, parentId) ==
    [id |-> id, type |-> "folder", name |-> "src", parentId |-> parentId]

\* a file under the folder src-folder, and a folder that reuses a seeded id
CreateBodies ==
    { FileBody("n1", "src-folder", ABC), FolderBody("src-folder", "root-default") }

DeleteIds == {"src-folder", "n1", "root-demo", "root-project-1", "ghost"}

FolderNode(id, children) ==
    [id |-> id, type |-> "folder", name |-> "dir", children |-> children]

\* root -> folder -> file; the file carries a stale parentId and projectId
Tree3 ==
    << FolderNode("t-root",
         << FolderNode("t-dir",
              << [id |-> "t-file", type |-> "file", name |-> "a.txt",
                  content |-> ABC, children |-> <<>>,
                  parentId |-> "elsewhere", projectId |-> "other-project",
                  size |-> 99, lineCount |-> 99] >>) >>) >>

\* two roots, one of them a seeded id; the file sends no content
Tree2 ==
    << FolderNode("src-folder", <<>>),
       [id |-> "t-file", type |-> "file", name |-> "a.txt"] >>

\* the same id twice
TreeDup ==
    << FolderNode("t-root", << [id |-> "t-root", type |-> "file", name |-> "a.txt",
                                       content |-> <<>>] >>) >>

TreeInputs == {TreeBody(Tree3), TreeBody(Tree2), TreeBody(TreeDup), TreeBody(<<>>), NotArray}

FileIds == {"app-js", "n1", "src-folder"}
FileBodies == {[content |-> t] : t \in Contents} \cup {<<>>}

PositionIds == {"src-folder", "ghost"}
Coordinates == {<<1, 2>>, <<3, 4>>}

-----------------------------------------------------------------------------
(* Spec: projects, createNode, deleteNode and list, one request at a time, *)
(* each run to its answer; any database call may fail.                     *)

Next ==
    \/ \E fault \in BOOLEAN :
         /\ AllIdle
         /\ \/ \E p \in NewProjectIds : CreateProject("A", p, fault)
            \/ \E p \in NewProjectIds : DeleteProject("A", p, fault)
            \/ \E p \in ProjectIds : ListNodes("A", p, fault)
            \/ \E p \in ProjectIds, b \in CreateBodies : CreateNode("A", p, b, fault)
            \/ \E id \in DeleteIds : DeleteNode("A", id, fault)
    \/ CreateProjectRoot("A")
    \/ DeleteProjectNodes("A")
    \/ DeleteFindChildren("A")
    \/ DeleteOne("A")
    \/ DeleteEmit("A")
    \/ StorageFault("A")

Spec == Init /\ [][Next]_vars

(* SpecTree: replaceProjectTree and list, one request at a time.           *)

NextTree ==
    \/ \E fault \in BOOLEAN :
         /\ AllIdle
         /\ \/ \E p \in ProjectIds, t \in TreeInputs : SaveTree("A", p, t, fault)
            \/ \E p \in ProjectIds : ListNodes("A", p, fault)
    \/ SaveTreeInsert("A")
    \/ SaveTreeCommit("A")
    \/ SaveTreeEmit("A")
    \/ StorageFault("A")

SpecTree == Init /\ [][NextTree]_vars

(* SpecFile: saveFileContent on seeded and created files.                  *)

NextFile ==
    \/ \E fault \in BOOLEAN :
         /\ AllIdle
         /\ \/ \E id \in FileIds, b \in FileBodies : SaveFile("A", id, b, fault)
            \/ \E p \in ProjectIds, b \in CreateBodies : CreateNode("A", p, b, fault)
    \/ SaveFileEmit("A")

SpecFile == Init /\ [][NextFile]_vars

(* SpecPos: two clients move nodes concurrently.                           *)

NextPos ==
    \/ \E c \in Clients, id \in PositionIds, xy \in Coordinates, fault \in BOOLEAN :
            UpdatePosition(c, id, xy[1], xy[2], fault)
    \/ \E c \in Clients : UpdatePositionEmit(c)
    \/ \E c \in Clients : UpdatePositionRespond(c)

SpecPos == Init /\ [][NextPos]_vars

(* SpecPure: the round trip on every flat list of at most MaxFlat          *)
(* documents of one project (distinct ids) whose parent chains have no     *)
(* cycle; a parent may be missing from the list.                           *)

FlatIds == {"a", "b", "c", "d"}
FlatParents == FlatIds \cup {Null, "ghost"}

FlatDoc(id, parentId) ==
    IF id \in {"a", "b"}
    THEN NewDoc([id |-> id, projectId |-> "default-project", type |-> "folder",
                 name |-> id, parentId |-> parentId])
    ELSE NewDoc([id |-> id, projectId |-> "default-project", type |-> "file",
                 name |-> id, parentId |-> parentId, content |-> ABC])

ParentIn(docs, id) ==
    LET at == FirstIndex(docs, LAMBDA d : d.id = id)
    IN IF at = 0 THEN Null ELSE docs[at].parentId

RECURSIVE ReachesItself(_, _, _, _)
ReachesItself(docs, start, id, fuel) ==
    LET up == ParentIn(docs, id)
    IN IF up = Null \/ fuel = 0 THEN FALSE
       ELSE IF up = start THEN TRUE
       ELSE ReachesItself(docs, start, up, fuel - 1)

Acyclic(docs) ==
    \A i \in 1..Len(docs) : ~ReachesItself(docs, docs[i].id, docs[i].id, Len(docs))

FlatInputs ==
    UNION { { [i \in 1..n |-> FlatDoc(ids[i], parents[i])] :
                ids \in {f \in [1..n -> FlatIds] : \A i, j \in 1..n : f[i] = f[j] => i = j},
                parents \in [1..n -> FlatParents] } : n \in 0..MaxFlat }

InitPure ==
    /\ InitStore
    /\ \E flat \in FlatInputs :
          /\ Acyclic(flat)
          /\ pure = [NoPure EXCEPT !.pc = "flat", !.flat = flat]

NextPure == PureAssemble \/ PureFlatten \/ PureReassemble

SpecPure == InitPure /\ [][NextPure]_vars

(* SpecDel: a cascading delete with a concurrent list.                     *)

NextDel ==
    \/ \E id \in DeleteIds, fault \in BOOLEAN : DeleteNode("A", id, fault)
    \/ DeleteFindChildren("A")
    \/ DeleteOne("A")
    \/ DeleteEmit("A")
    \/ StorageFault("A")
    \/ \E p \in ProjectIds, fault \in BOOLEAN : ListNodes("B", p, fault)

SpecDel == Init /\ [][NextDel]_vars

(* SpecOps: every mutating route with its notification, one request at a  *)
(* time; a database call may reject and io.emit may throw.                 *)

\* a list as a client got it from the server: its nodes carry their project
LegacyTree ==
    << [id |-> "l-root", type |-> "folder", name |-> "Home",
        projectId |-> "default-project", children |-> <<>>] >>

LegacyTreeInputs == {TreeBody(LegacyTree), TreeBody(Tree3), NotArray}

LegacyBodies ==
    { [id |-> "n2", type |-> "file", name |-> "b.txt", parentId |-> "root-default",
       content |-> ABC],
      [id |-> "n2", type |-> "folder", name |-> "src", parentId |-> "root-demo"],
      [id |-> "n2", type |-> "folder", name |-> ""],
      [id |-> "n2", type |-> "link", name |-> "b.txt"] }

OpsDeleteIds == {"src-folder", "ghost"}
OpsExpanded == {<<"src-folder", TRUE>>, <<"app-js", TRUE>>}
OpsFiles == {<<"app-js", [content |-> ABC]>>, <<"src-folder", [content |-> ABC]>>}

NextOps ==
    \/ \E fault \in BOOLEAN :
         /\ AllIdle
         /\ \/ CreateNode("A", "default-project", FileBody("n1", "src-folder", ABC), fault)
            \/ \E id \in OpsDeleteIds : DeleteNode("A", id, fault)
            \/ \E t \in {TreeBody(Tree3), NotArray} : SaveTree("A", "default-project", t, fault)
            \/ \E t \in LegacyTreeInputs : LegacySaveTree("A", t, fault)
            \/ \E b \in LegacyBodies : CreateNodeLegacy("A", b, fault)
            \/ \E id \in PositionIds : UpdatePosition("A", id, 1, 2, fault)
            \/ \E f \in OpsFiles : SaveFile("A", f[1], f[2], fault)
    \/ \E e \in OpsExpanded : AllIdle /\ PatchExpanded("A", e[1], e[2])
    \/ \E fault \in BOOLEAN : UpdateExpanded("A", fault)
    \/ UpdateExpandedEmit("A")
    \/ DeleteFindChildren("A")
    \/ DeleteOne("A")
    \/ DeleteEmit("A")
    \/ SaveTreeInsert("A")
    \/ SaveTreeCommit("A")
    \/ SaveTreeEmit("A")
    \/ LegacyTreeInsert("A")
    \/ LegacyTreeCommit("A")
    \/ LegacyTreeEmit("A")
    \/ UpdatePositionEmit("A")
    \/ UpdatePositionRespond("A")
    \/ SaveFileEmit("A")
    \/ StorageFault("A")
    \/ EmitThrows("A")

SpecOps == Init /\ [][NextOps]_vars

(* SpecToggle: two browsers load a project and toggle its folders.         *)

ToggleIds == {"src-folder", "app-js"}

NextToggle ==
    \/ \E c \in Clients, fault \in BOOLEAN : ListNodes(c, "demo-project", fault)
    \/ \E c \in Clients : FetchFulfilled(c)
    \/ \E c \in Clients, id \in ToggleIds : ToggleFolderAPI(c, id)
    \/ \E c \in Clients, fault \in BOOLEAN : UpdateExpanded(c, fault)
    \/ \E c \in Clients : UpdateExpandedEmit(c)

SpecToggle == Init /\ [][NextToggle]_vars

(* SpecMock: the server without storage: MONGODB_URI is not set, or it is  *)
(* set and the connection failed.                                          *)

KindExpanded == {<<"app-js", TRUE>>, <<"ghost", TRUE>>}
KindFiles == {<<"src-folder", [content |-> ABC]>>, <<"ghost", [content |-> ABC]>>}

NotConfigured == [MONGODB_URI |-> FALSE, readyState |-> 0]
Disconnected == [MONGODB_URI |-> TRUE, readyState |-> 0]

InitMock ==
    /\ nodes = <<>>
    /\ projects = {}
    /\ reqs = [c \in Clients |-> IdleReq]
    /\ env \in {NotConfigured, Disconnected}
    /\ ui = [c \in Clients |-> initialState]
    /\ editor = [c \in Clients |-> editorInitialState]
    /\ pure = NoPure

NextMock ==
    \/ \E c \in Clients, p \in ProjectIds, fault \in BOOLEAN : ListNodes(c, p, fault)
    \/ \E c \in Clients, fault \in BOOLEAN : GetTree(c, fault)
    \/ \E c \in Clients, id \in OpsDeleteIds, fault \in BOOLEAN : DeleteNode(c, id, fault)
    \/ \E c \in Clients, id \in PositionIds, fault \in BOOLEAN : UpdatePosition(c, id, 1, 2, fault)
    \/ \E c \in Clients, e \in KindExpanded : PatchExpanded(c, e[1], e[2])
    \/ \E c \in Clients, fault \in BOOLEAN : UpdateExpanded(c, fault)
    \/ \E c \in Clients, f \in KindFiles, fault \in BOOLEAN : SaveFile(c, f[1], f[2], fault)

SpecMock == InitMock /\ [][NextMock]_vars

(* SpecIds: client A replaces trees while client B creates nodes.          *)

IdsTrees == {TreeBody(Tree2), TreeBody(TreeDup)}

NextIds ==
    \/ \E t \in IdsTrees, fault \in BOOLEAN : SaveTree("A", "default-project", t, fault)
    \/ SaveTreeInsert("A")
    \/ SaveTreeCommit("A")
    \/ SaveTreeEmit("A")
    \/ StorageFault("A")
    \/ \E b \in CreateBodies, fault \in BOOLEAN : CreateNode("B", "default-project", b, fault)

SpecIds == Init /\ [][NextIds]_vars

(* SpecCreate: createNode with well-formed and malformed bodies.           *)

InvalidBodies ==
    { [id |-> "n3", type |-> "link", name |-> "b.txt", parentId |-> "root-default"],
      [id |-> "n3", type |-> "file", name |-> "", parentId |-> "root-default"],
      [id |-> "n3", type |-> "folder", parentId |-> "root-default"] }

NextCreate ==
    \/ \E c \in Clients, p \in ProjectIds, b \in CreateBodies \cup InvalidBodies,
          fault \in BOOLEAN : CreateNode(c, p, b, fault)
    \/ \E c \in Clients, b \in LegacyBodies, fault \in BOOLEAN : CreateNodeLegacy(c, b, fault)

SpecCreate == Init /\ [][NextCreate]_vars

-----------------------------------------------------------------------------
(* Vocabulary of the properties *)

DocAt(docs, key) == docs[FirstIndex(docs, LAMBDA d : Key(d) = key)]

ProjectDocs(docs, projectId) == Find(docs, LAMBDA d : d.projectId = projectId)

ParentInProject(docs, projectId, id) ==
    LET at == FirstIndex(docs, LAMBDA d : d.projectId = projectId /\ d.id = id)
    IN IF at = 0 THEN Null ELSE docs[at].parentId

\* id lies below rootId in the project's parent relation
RECURSIVE Below(_, _, _, _, _)
Below(docs, projectId, id, rootId, fuel) ==
    LET up == ParentInProject(docs, projectId, id)
    IN IF up = Null \/ fuel = 0 THEN FALSE
       ELSE IF up = rootId THEN TRUE
       ELSE Below(docs, projectId, up, rootId, fuel - 1)

\* keys of a node and of its transitive descendants in its project
SubtreeKeys(docs, target) ==
    {Key(target)} \cup
    {Key(d) : d \in {e \in RangeOf(docs) :
                       /\ e.projectId = target.projectId
                       /\ Below(docs, target.projectId, e.id, target.id, Len(docs))}}

NumNewlines(content) == Cardinality({i \in 1..Len(content) : content[i] = NL})

Utf8Length(content) ==
    Len(content) + Cardinality({i \in 1..Len(content) : content[i] = "E2"})

DesignatedRoots == {"root-default", "root-demo"} \cup {"root-" \o p : p \in NewProjectIds}

-----------------------------------------------------------------------------
(* C1: a deleteNode that succeeds on a node with N transitive descendants  *)
(* removes exactly those N+1 documents, the node and its descendants and   *)
(* no others, and no stored document keeps a parentId equal to a removed   *)
(* id.                                                                     *)
C1_DeleteRemovesExactlySubtree ==
    \A c \in Clients :
        Answered(c, "deleteNode", 200) =>
            LET removed == SubtreeKeys(reqs[c].pre, reqs[c].found)
            IN /\ KeysOf(nodes) = KeysOf(reqs[c].pre) \ removed
               /\ Len(nodes) = Len(reqs[c].pre) - Cardinality(removed)
               /\ \A i \in 1..Len(nodes) : nodes[i].parentId \notin {k[1] : k \in removed}

(* C2: the cascading delete is atomic: in every state a concurrent list    *)
(* can read, or a storage fault leaves behind, the node and all its        *)
(* descendants are present or all of them are absent.                      *)
C2_CascadeAtomic ==
    \A c \in Clients :
        (reqs[c].op = "deleteNode" /\ IsDoc(reqs[c].found)) =>
            LET subtree == SubtreeKeys(reqs[c].pre, reqs[c].found)
            IN \/ subtree \subseteq KeysOf(nodes)
               \/ subtree \cap KeysOf(nodes) = {}

(* C3: deleteNode on a designated project root (a stored node with         *)
(* parentId null named root-...) is answered Forbidden (403) and leaves    *)
(* the collection unchanged.                                               *)
C3_RootDeleteForbidden ==
    \A c \in Clients :
        ( /\ reqs[c].op = "deleteNode"
          /\ reqs[c].pc = "done"
          /\ reqs[c].status # 500
          /\ reqs[c].id \in DesignatedRoots
          /\ \E i \in 1..Len(reqs[c].pre) :
                reqs[c].pre[i].id = reqs[c].id /\ reqs[c].pre[i].parentId = Null )
        => (reqs[c].status = 403 /\ nodes = reqs[c].pre)

(* C4: replaceProjectTree is atomic: while its transaction is not          *)
(* committed, and after it failed at any step, the project's stored        *)
(* documents are those of before the call.                                 *)
C4_ReplaceTreeAtomic ==
    \A c \in Clients :
        ( /\ reqs[c].op = "saveTree"
          /\ \/ reqs[c].pc \in {"tree_insert", "tree_commit"}
             \/ reqs[c].pc = "done" /\ reqs[c].status = 500 )
        => ProjectDocs(nodes, reqs[c].pid) = ProjectDocs(reqs[c].pre, reqs[c].pid)

\* a save that failed at commit, after its deleteMany and insertMany
C4_Witness ==
    \E c \in Clients :
        /\ Answered(c, "saveTree", 500)
        /\ reqs[c].last = "tree_commit"
        /\ Len(reqs[c].body.nodes) > 0
        /\ ProjectDocs(nodes, reqs[c].pid) # <<>>

(* C5: once every operation has completed, each stored node's parentId is  *)
(* null or the id of a node stored in the same project.                    *)
C5_NoDanglingParent ==
    AllIdle =>
        \A i \in 1..Len(nodes) :
            \/ nodes[i].parentId = Null
            \/ \E j \in 1..Len(nodes) :
                  /\ nodes[j].projectId = nodes[i].projectId
                  /\ nodes[j].id = nodes[i].parentId

(* C6: for a flat list without cycles, assembling, flattening and          *)
(* assembling again yields the parent/child shape of the first assembly.   *)
C6_RoundTrip ==
    pure.pc = "h2" => Shape(pure.h2) = Shape(pure.h1)

\* a round trip of a three-level chain
C6_Witness ==
    /\ pure.pc = "h2"
    /\ Len(pure.h1) = 1
    /\ HasChildren(pure.h1[1])
    /\ HasChildren(pure.h1[1].children[1])

(* C7: after a successful replaceProjectTree(p, h) the project lists as    *)
(* many nodes as h contains, each with the id of its enclosing node of h   *)
(* as parentId (null for the roots), none of the project's earlier nodes   *)
(* that h lacks, and the assembled list has the nesting of h.              *)
C7_TreeListedAsSubmitted ==
    \A c \in Clients :
        ( /\ reqs[c].op = "saveTree"
          /\ \/ reqs[c].pc = "tree_emit"
             \/ reqs[c].pc = "done" /\ reqs[c].status = 200 )
        => LET h == reqs[c].body.nodes
               listed == ProjectDocs(nodes, reqs[c].pid)
               before == ProjectDocs(reqs[c].pre, reqs[c].pid)
           IN /\ Len(listed) = CountNodes(h)
              /\ CountNodes(buildHierarchy(listed)) = CountNodes(h)
              /\ {<<listed[i].id, listed[i].parentId>> : i \in 1..Len(listed)} = Nesting(h, Null)
              /\ Nesting(buildHierarchy(listed), Null) = Nesting(h, Null)
              /\ \A i \in 1..Len(before) :
                    (\A pair \in Nesting(h, Null) : pair[1] # before[i].id)
                    => \A j \in 1..Len(listed) : listed[j].id # before[i].id

\* root -> folder -> file replaced the seeded nodes of a project: 3 listed
C7_Witness ==
    \E c \in Clients :
        /\ Answered(c, "saveTree", 200)
        /\ reqs[c].body.nodes = Tree3
        /\ Len(ProjectDocs(nodes, reqs[c].pid)) = 3
        /\ Len(ProjectDocs(reqs[c].pre, reqs[c].pid)) > 1

(* C8: of two concurrent updateNodePosition calls for one id, the one      *)
(* whose write reached storage last determines the stored position,        *)
(* wherever the emits and the responses fall.                              *)
C8_LastWriteWins ==
    \A a, b \in Clients :
        ( /\ reqs[a].op = "updatePosition" /\ reqs[a].wrote = 1
          /\ reqs[b].op = "updatePosition" /\ reqs[b].wrote = 2
          /\ reqs[a].id = reqs[b].id )
        => LET d == DocAt(nodes, Key(reqs[b].found))
           IN d.x = reqs[b].body.x /\ d.y = reqs[b].body.y

\* B wrote after A with other coordinates while A has not yet emitted
C8_Witness ==
    \E a, b \in Clients :
        /\ reqs[a].op = "updatePosition" /\ reqs[a].wrote = 1
        /\ reqs[b].op = "updatePosition" /\ reqs[b].wrote = 2
        /\ reqs[a].id = reqs[b].id
        /\ reqs[a].body # reqs[b].body
        /\ reqs[a].pc = "pos_emit"
        /\ reqs[b].pc = "done"

(* C9: after a successful saveFileContent(id, content) the stored file has *)
(* size = the UTF-8 byte length of content and lineCount = the number of   *)
(* newline separators in content plus one.                                 *)
C9_SaveRecomputesMetadata ==
    \A c \in Clients :
        ( /\ reqs[c].op = "saveFile"
          /\ \/ reqs[c].pc = "file_emit"
             \/ reqs[c].pc = "done" /\ reqs[c].status = 200 )
        => LET d == DocAt(nodes, Key(reqs[c].found))
               content == reqs[c].body.content
           IN /\ d.content = content
              /\ d.size = Utf8Length(content)
              /\ d.lineCount = NumNewlines(content) + 1

\* a two-byte character and a trailing newline were saved
C9_Witness ==
    \E c \in Clients :
        /\ Answered(c, "saveFile", 200)
        /\ reqs[c].body.content = <<"E2", NL>>
        /\ reqs[c].found.size = 3
        /\ reqs[c].found.lineCount = 2

(* C10: a file created with content c under a folder of a project is       *)
(* stored with lineCount = newlines of c + 1 and size = byte length of c   *)
(* ("a\nb\nc": 3 and 5); after deleteNode of a folder neither the folder   *)
(* nor anything below it is listed.                                        *)
C10_CreateFileThenDeleteFolder ==
    \A c \in Clients :
        /\ ( /\ Answered(c, "createNode", 201)
             /\ reqs[c].body.type = "file"
             /\ Has(reqs[c].body, "content")
             /\ \E i \in 1..Len(reqs[c].pre) :
                   /\ reqs[c].pre[i].projectId = reqs[c].pid
                   /\ reqs[c].pre[i].id = reqs[c].body.parentId
                   /\ reqs[c].pre[i].type = "folder" )
           => LET d == DocAt(nodes, <<reqs[c].id, reqs[c].pid>>)
              IN /\ d.lineCount = NumNewlines(reqs[c].body.content) + 1
                 /\ d.size = Utf8Length(reqs[c].body.content)
        /\ ( Answered(c, "deleteNode", 200) /\ reqs[c].found.type = "folder" )
           => SubtreeKeys(reqs[c].pre, reqs[c].found)
                \cap KeysOf(ProjectDocs(nodes, reqs[c].found.projectId)) = {}


-----------------------------------------------------------------------------
(* Vocabulary of C11..C20 *)

Emitted(r) == IsDoc(r.emit)

OtherProjects(docs, projectId) == SelectSeq(docs, LAMBDA d : d.projectId # projectId)

StoredAs(r, Test(_)) ==
    \E i \in 1..Len(nodes) : Key(nodes[i]) = Key(r.found) /\ Test(nodes[i])

\* the mutation of request r is in the collection
AppliedOp(r) ==
    CASE r.op = "saveTree" -> ProjectDocs(nodes, r.pid) = r.txn.inserts
      [] r.op = "legacySaveTree" -> nodes = r.txn.inserts
      [] r.op = "deleteNode" -> \A i \in 1..Len(nodes) : Key(nodes[i]) # Key(r.found)
      [] r.op = "updatePosition" ->
            StoredAs(r, LAMBDA d : d.x = r.body.x /\ d.y = r.body.y)
      [] r.op = "updateExpanded" -> StoredAs(r, LAMBDA d : d.expanded = r.body.expanded)
      [] r.op = "saveFile" -> StoredAs(r, LAMBDA d : d.content = r.body.content)
      [] r.op = "createNodeLegacy" -> \E i \in 1..Len(nodes) : nodes[i].id = r.id
      [] OTHER -> FALSE

\* documents with this id exist, none of them of the kind
WrongKind(docs, id, kind) ==
    /\ \E i \in 1..Len(docs) : docs[i].id = id
    /\ \A i \in 1..Len(docs) : docs[i].id = id => docs[i].type # kind

\* the answer of r was given at its notification step (a request that
\* found no document was answered before it)
AtNotification(r) ==
    /\ r.pc = "done"
    /\ r.last \in Emitting
    /\ r.op \in {"updatePosition", "saveFile"} => IsDoc(r.found)

\* the project a request addresses
Addressed(r) ==
    IF r.op = "saveTree" THEN r.pid
    ELSE IF r.op = "legacySaveTree" THEN r.body.nodes[1].projectId
    ELSE r.found.projectId

-----------------------------------------------------------------------------
(* C11: a change notification is emitted only when the mutation of its     *)
(* request is in the collection, and a request answered with a failure     *)
(* has emitted none.                                                       *)
C11_NotifyAfterMutation ==
    \A c \in Clients :
        /\ Emitted(reqs[c]) => AppliedOp(reqs[c])
        /\ (reqs[c].pc = "done" /\ reqs[c].status \notin {200, 201}) => ~Emitted(reqs[c])

\* a cascading delete removed documents and then emitted node-deleted
C11_Witness ==
    \E c \in Clients :
        /\ Answered(c, "deleteNode", 200)
        /\ Emitted(reqs[c])
        /\ reqs[c].emit.ev = "node-deleted"
        /\ Len(nodes) < Len(reqs[c].pre)

(* C12: when the notification step fails after the mutation succeeded,     *)
(* the mutation stays applied and the caller is answered success: every    *)
(* answer given from the notification step is 200 with the mutation        *)
(* stored.                                                                 *)
C12_NotificationOutOfBand ==
    \A c \in Clients :
        AtNotification(reqs[c]) => (reqs[c].status = 200 /\ AppliedOp(reqs[c]))

(* C13: after two toggles of one folder in sequence, both answered 200,    *)
(* the folder's expanded flag is what it was before the first toggle, in   *)
(* the client's tree and in storage.                                       *)
C13_ToggleTwiceRestores ==
    \A c \in Clients :
        LET log == ui[c].log
        IN ( /\ Len(log) = 2
             /\ log[1].id = log[2].id
             /\ log[2].prevOk
             /\ Answered(c, "updateExpanded", 200) )
           => /\ Expanded(findNode(ui[c].nodes, log[1].id)) = log[1].shown
              /\ StoredExpanded(ui[c].currentProjectId, log[1].id) = log[1].stored

(* C14: setFolderExpanded on a file and saveFileContent on a folder are    *)
(* answered InvalidKind, an answer that is neither success nor NotFound    *)
(* (404), and the collection stays as it was.                              *)
C14_WrongKindIsInvalidKind ==
    \A c \in Clients :
        ( /\ reqs[c].pc = "done"
          /\ reqs[c].status # 500
          /\ \/ reqs[c].op = "updateExpanded" /\ WrongKind(reqs[c].pre, reqs[c].id, "folder")
             \/ reqs[c].op = "saveFile" /\ WrongKind(reqs[c].pre, reqs[c].id, "file") )
        => (reqs[c].status \notin {200, 404} /\ nodes = reqs[c].pre)

(* C15: deleteNode, updateNodePosition, setFolderExpanded and              *)
(* saveFileContent on an id no stored node has are answered NotFound (404) *)
(* and leave the collection unchanged; none is answered success.           *)
C15_MissingIdIsNotFound ==
    \A c \in Clients :
        ( /\ reqs[c].pc = "done"
          /\ reqs[c].status # 500
          /\ reqs[c].op \in {"deleteNode", "updatePosition", "updateExpanded", "saveFile"}
          /\ \A i \in 1..Len(reqs[c].pre) : reqs[c].pre[i].id # reqs[c].id )
        => (reqs[c].status = 404 /\ nodes = reqs[c].pre)

(* C16: a successful deleteNode, updateNodePosition, setFolderExpanded,    *)
(* saveFileContent, replaceProjectTree or legacy save-tree leaves the      *)
(* documents of every project other than the one it addresses unchanged.   *)
C16_ProjectsIsolated ==
    \A c \in Clients :
        ( /\ reqs[c].pc = "done"
          /\ reqs[c].status = 200
          /\ \/ reqs[c].op \in {"deleteNode", "updatePosition", "updateExpanded", "saveFile"}
                /\ IsDoc(reqs[c].found)
             \/ reqs[c].op = "saveTree"
             \/ /\ reqs[c].op = "legacySaveTree"
                /\ reqs[c].body.nodes # <<>>
                /\ Has(reqs[c].body.nodes[1], "projectId") )
        => OtherProjects(nodes, Addressed(reqs[c]))
             = OtherProjects(reqs[c].pre, Addressed(reqs[c]))

(* C17: no two stored nodes of one project have the same id, whatever      *)
(* createNode and replaceProjectTree calls came before; a createNode whose *)
(* id the project already holds is not answered 201, and a tree that       *)
(* repeats an id is not answered 200.                                      *)
C17_UniqueIdsPerProject ==
    /\ \A i, j \in 1..Len(nodes) :
          (nodes[i].id = nodes[j].id /\ nodes[i].projectId = nodes[j].projectId) => i = j
    /\ \A c \in Clients :
          /\ ( /\ reqs[c].op = "createNode" /\ reqs[c].pc = "done"
               /\ <<reqs[c].id, reqs[c].pid>> \in KeysOf(reqs[c].pre) )
             => reqs[c].status # 201
          /\ Answered(c, "saveTree", 200)
             => Cardinality({pair[1] : pair \in Nesting(reqs[c].body.nodes, Null)})
                  = CountNodes(reqs[c].body.nodes)

\* a createNode with an id its project holds was refused while a tree
\* replacement was in progress
C17_Witness ==
    \E a, b \in Clients :
        /\ reqs[b].op = "createNode" /\ reqs[b].pc = "done" /\ reqs[b].status = 500
        /\ <<reqs[b].id, reqs[b].pid>> \in KeysOf(reqs[b].pre)
        /\ <<reqs[b].id, reqs[b].pid>> \in KeysOf(nodes)
        /\ reqs[a].op = "saveTree" /\ reqs[a].pc = "tree_commit"

(* C18: with the storage unavailable, list(projectId) and the legacy       *)
(* get-tree are answered a failure, never 200 with a node list.            *)
C18_StorageUnavailableDistinct ==
    \A c \in Clients :
        ( /\ env.readyState # 1
          /\ reqs[c].pc = "done"
          /\ reqs[c].op \in {"list", "getTree"} )
        => reqs[c].status # 200

(* C19: when deleteProject(p) has ended, with success or with a failure,   *)
(* a project record p that is inactive has no stored node, the record is   *)
(* still stored after a success, and the nodes of the other projects are   *)
(* those of before.                                                        *)
C19_DeleteProjectConsistent ==
    \A c \in Clients :
        (reqs[c].op = "deleteProject" /\ reqs[c].pc = "done")
        => /\ \A p \in projects :
                 (p.id = reqs[c].pid /\ ~p.isActive) => ProjectDocs(nodes, p.id) = <<>>
           /\ OtherProjects(nodes, reqs[c].pid) = OtherProjects(reqs[c].pre, reqs[c].pid)

(* C20: createNode with a kind other than file/folder or with an empty     *)
(* name is answered ValidationError, an answer that is neither success     *)
(* nor the answer of a storage fault (500), and stores no node.            *)
C20_CreateValidates ==
    \A c \in Clients :
        ( /\ reqs[c].op = "createNode"
          /\ reqs[c].pc = "done"
          /\ \/ Field(reqs[c].body, "type") \notin Types
             \/ ~Truthy(Field(reqs[c].body, "name")) )
        => /\ reqs[c].status \notin {201, 500}
           /\ <<reqs[c].id, reqs[c].pid>> \notin KeysOf(nodes)

-----------------------------------------------------------------------------
(* C21: every createNode answered with success has emitted exactly one     *)
(* node-created notification carrying the new node and its parent id.      *)
C21_CreateNotifies ==
    \A c \in Clients :
        ( /\ reqs[c].op \in {"createNode", "createNodeLegacy"}
          /\ reqs[c].pc = "done"
          /\ reqs[c].status = 201 )
        => /\ Emitted(reqs[c])
           /\ reqs[c].emit.ev = "node-created"
           /\ reqs[c].emit.id = reqs[c].id

-----------------------------------------------------------------------------
(* SpecFrame: the operations around a folder's expanded flag, one request  *)
(* at a time: create, move, save a file, delete another node, replace the  *)
(* tree of the demo project, and set the flag.                             *)

\* the demo tree as a browser sends it after collapsing the root locally
FrameTree ==
    << [id |-> "root-demo", type |-> "folder", name |-> "Demo Root",
        x |-> 100, y |-> 100, expanded |-> FALSE,
        children |-> << [id |-> "src-folder", type |-> "folder", name |-> "src"] >>] >>

\* the same root sent to POST /api/tree, which stamps no project
LegacyFrameTree ==
    << [id |-> "root-demo", type |-> "folder", name |-> "Demo Root",
        projectId |-> "demo-project", x |-> 100, y |-> 100, expanded |-> FALSE] >>

FrameDeleteIds == {"components-folder", "app-js"}
FrameExpanded == {<<"src-folder", TRUE>>, <<"src-folder", FALSE>>}

NextFrame ==
    \/ \E fault \in BOOLEAN :
         /\ AllIdle
         /\ \/ \E b \in CreateBodies : CreateNode("A", "demo-project", b, fault)
            \/ \E id \in FrameDeleteIds : DeleteNode("A", id, fault)
            \/ SaveTree("A", "demo-project", TreeBody(FrameTree), fault)
            \/ LegacySaveTree("A", TreeBody(LegacyFrameTree), fault)
            \/ UpdatePosition("A", "src-folder", 1, 2, fault)
            \/ SaveFile("A", "app-js", [content |-> ABC], fault)
    \/ \E e \in FrameExpanded : AllIdle /\ PatchExpanded("A", e[1], e[2])
    \/ \E fault \in BOOLEAN : UpdateExpanded("A", fault)
    \/ UpdateExpandedEmit("A")
    \/ DeleteFindChildren("A")
    \/ DeleteOne("A")
    \/ DeleteEmit("A")
    \/ SaveTreeInsert("A")
    \/ SaveTreeCommit("A")
    \/ SaveTreeEmit("A")
    \/ LegacyTreeInsert("A")
    \/ LegacyTreeCommit("A")
    \/ LegacyTreeEmit("A")
    \/ UpdatePositionEmit("A")
    \/ UpdatePositionRespond("A")
    \/ SaveFileEmit("A")
    \/ StorageFault("A")

SpecFrame == Init /\ [][NextFrame]_vars

\* the folder with key k is stored before and after the step, its flag differs
ExpandedChanged(k) ==
    /\ k \in KeysOf(nodes) \cap KeysOf(nodes')
    /\ DocAt(nodes, k).type = "folder" /\ DocAt(nodes', k).type = "folder"
    /\ DocAt(nodes', k).expanded # DocAt(nodes, k).expanded

\* the step is the findOneAndUpdate of PATCH /api/node/:id/expanded on k's id
ToggleStep(k) ==
    \E c \in Clients :
        /\ reqs[c].op = "updateExpanded" /\ reqs[c].pc = "exp_recv"
        /\ reqs'[c].pc = "exp_emit"
        /\ reqs[c].id = k[1]

\* the step commits a replaced tree that holds k (POST /api/tree replaces
\* every project); k holds the flag its submitted node carries, false when
\* it carries none
ReplaceStep(k) ==
    \E c \in Clients :
        /\ \/ /\ reqs[c].op = "saveTree" /\ reqs[c].pc = "tree_commit"
              /\ reqs'[c].pc = "tree_emit"
              /\ reqs[c].pid = k[2]
           \/ /\ reqs[c].op = "legacySaveTree" /\ reqs[c].pc = "ltree_commit"
              /\ reqs'[c].pc = "ltree_emit"
        /\ LET sent == findNode(reqs[c].body.nodes, k[1])
           IN /\ IsDoc(sent)
              /\ DocAt(nodes', k).expanded = Expanded(sent)

(* C22: the expanded flag of a folder that is stored before and after a    *)
(* step changes only in a step of setFolderExpanded on that folder: no     *)
(* step of createNode, updateNodePosition, saveFileContent, deleteNode or  *)
(* replaceProjectTree changes it.                                          *)
C22_ExpandedOnlyBySet ==
    [][\A k \in KeysOf(nodes) : ExpandedChanged(k) => ToggleStep(k)]_vars

(* C22 as amended: the flag changes only in a step of setFolderExpanded on *)
(* that folder or in the commit of a tree replacement that holds it,       *)
(* which stores the flag the submitted hierarchy carries for it.           *)
C22_ExpandedBySetOrReplace ==
    [][\A k \in KeysOf(nodes) : ExpandedChanged(k) => (ToggleStep(k) \/ ReplaceStep(k))]_vars

\* src-folder was expanded and then moved; the tree was then replaced, and
\* the root that was stored expanded is stored collapsed
C22_Witness ==
    /\ Answered("A", "saveTree", 200)
    /\ \E i \in 1..Len(reqs["A"].pre) :
          /\ reqs["A"].pre[i].id = "src-folder"
          /\ reqs["A"].pre[i].x = 1
          /\ reqs["A"].pre[i].expanded
    /\ DocAt(reqs["A"].pre, <<"root-demo", "demo-project">>).expanded
    /\ ~DocAt(nodes, <<"root-demo", "demo-project">>).expanded

-----------------------------------------------------------------------------
\* a node of kind file carries neither expanded nor children; a node of
\* kind folder carries no content (an empty content counts as none)
KindShaped(n) ==
    /\ n.type = "file" => ~Has(n, "expanded") /\ ~Has(n, "children")
    /\ n.type = "folder" => ContentOrEmpty(n) = <<>>

RECURSIVE AllKindShaped(_)
AllKindShaped(hier) ==
    \A n \in 1..Len(hier) :
        /\ KindShaped(hier[n])
        /\ Has(hier[n], "children") => AllKindShaped(hier[n].children)

(* C23: once a request is answered, in every stored node and in the        *)
(* hierarchical view answered by list(projectId), a file carries no        *)
(* expanded flag and no children field and a folder carries no content.    *)
C23_KindFields ==
    \A c \in Clients :
        reqs[c].pc = "done"
        => /\ \A i \in 1..Len(nodes) : KindShaped(nodes[i])
           /\ Answered(c, "list", 200) => AllKindShaped(reqs[c].out)

-----------------------------------------------------------------------------
(* C24: the roots assembleHierarchy returns are exactly the nodes of its   *)
(* input whose parentId is null or absent, in input order: no node with a  *)
(* non-null parentId is returned as a root.                                *)
C24_RootsHaveNoParent ==
    pure.pc \in {"h1", "flat2", "h2"}
    => /\ IdsOf(pure.h1) = IdsOf(SelectSeq(pure.flat, LAMBDA d : ~Truthy(d.parentId)))
       /\ \A n \in 1..Len(pure.h1) : ~Truthy(pure.h1[n].parentId)

-----------------------------------------------------------------------------
(* The single-tree server: one collection without projects, `id` unique.   *)
(* POST /api/node looks for a node of the same name under the same parent, *)
(* then saves; the index { name, parentId } is not unique.                 *)

SingleFields == DocFields \ {"projectId"}

\* new FileSystemNode(nodeData): a field not given takes the schema default
NewSingleDoc(data) ==
    [f \in SingleFields |-> IF Has(data, f) THEN data[f] ELSE SchemaDefault(f)]

\* the documents of initializeDefaultFileSystem, abbreviated to three
singleNodes ==
    << NewSingleDoc([id |-> "root", type |-> "folder", name |-> "Home", parentId |-> Null,
                     x |-> 100, y |-> 100, expanded |-> TRUE]),
       NewSingleDoc([id |-> "folder1", type |-> "folder", name |-> "Project A",
                     parentId |-> "root", x |-> 400, y |-> 200, expanded |-> FALSE]),
       NewSingleDoc([id |-> "file1", type |-> "file", name |-> "index.js",
                     content |-> AppJsText, parentId |-> "folder1",
                     x |-> 700, y |-> 300, size |-> 285, lineCount |-> 12]) >>

InitSingle ==
    /\ nodes = singleNodes
    /\ projects = {}
    /\ reqs = [c \in Clients |-> IdleReq]
    /\ env = Connected
    /\ ui = [c \in Clients |-> initialState]
    /\ editor = [c \in Clients |-> editorInitialState]
    /\ pure = NoPure

\* validation of the body, then the branch on readyState
CreateNodeSingle(c, body) ==
    /\ Startable(c)
    /\ LET r == Begin(c, "createNodeSingle", "node_find", Null, Field(body, "id"), body)
           type == Field(body, "type")
       IN reqs' = [reqs EXCEPT ![c] =
                     IF ~Truthy(Field(body, "id")) \/ ~Truthy(type) \/ ~Truthy(Field(body, "name"))
                     THEN Respond(r, 400, Null)
                     ELSE IF type \notin Types THEN Respond(r, 400, Null)
                     ELSE IF env.readyState # 1 THEN Respond(r, 201, body)
                     ELSE r]
    /\ UNCHANGED <<nodes, projects, pure, env, ui, editor>>

\* await FileSystemNode.findOne({ name, parentId }): an undefined parentId
\* is left out of the filter
CreateNodeFind(c, fault) ==
    /\ reqs[c].pc = "node_find"
    /\ LET body == reqs[c].body
           existingNode ==
               \E i \in 1..Len(nodes) :
                   /\ nodes[i].name = body.name
                   /\ Has(body, "parentId") => nodes[i].parentId = body.parentId
       IN reqs' = [reqs EXCEPT ![c] =
                     IF fault THEN Respond(@, 500, Null)
                     ELSE IF existingNode THEN Respond(@, 409, Null)
                     ELSE [@ EXCEPT !.pc = "node_save"]]
    /\ UNCHANGED <<nodes, projects, pure, env, ui, editor>>

\* the object the handler builds from the body; a field it sets to
\* undefined is a field not given
singleNodeData(body) ==
    [f \in {"id", "type", "name", "x", "y"}
            \cup (IF Has(body, "parentId") THEN {"parentId"} ELSE {})
            \cup (IF body.type = "file" THEN {"content", "size", "lineCount"} ELSE {})
            \cup (IF body.type = "folder" THEN {"expanded"} ELSE {}) |->
        CASE f \in {"x", "y"} -> IF Has(body, f) THEN body[f] ELSE 0
          [] f = "content" -> ContentOrEmpty(body)
          [] f = "size" -> calculateFileSize(ContentOrEmpty(body))
          [] f = "lineCount" -> countLines(ContentOrEmpty(body))
          [] f = "expanded" -> FALSE
          [] OTHER -> body[f]]

\* await newNode.save(): the unique index on id rejects with E11000
CreateNodeSave(c, fault) ==
    /\ reqs[c].pc = "node_save"
    /\ LET newNode == NewSingleDoc(singleNodeData(reqs[c].body))
       IN IF fault
          THEN /\ reqs' = [reqs EXCEPT ![c] = Respond(@, 500, Null)]
               /\ UNCHANGED nodes
          ELSE IF \E i \in 1..Len(nodes) : nodes[i].id = newNode.id
          THEN /\ reqs' = [reqs EXCEPT ![c] = Respond(@, 409, Null)]
               /\ UNCHANGED nodes
          ELSE /\ nodes' = Append(nodes, newNode)
               /\ reqs' = [reqs EXCEPT ![c] = [@ EXCEPT !.found = newNode, !.pc = "node_emit"]]
    /\ UNCHANGED <<projects, pure, env, ui, editor>>

\* io.emit('node-created', { node, parentId }); res.status(201)
CreateNodeEmit(c) ==
    /\ reqs[c].pc = "node_emit"
    /\ reqs' = [reqs EXCEPT ![c] =
                  Respond([@ EXCEPT !.emit = [ev |-> "node-created", id |-> reqs[c].id,
                                              parentId |-> reqs[c].found.parentId]],
                          201, reqs[c].found)]
    /\ UNCHANGED <<nodes, projects, pure, env, ui, editor>>

(* SpecSingle: two clients create nodes on the single-tree server.         *)

SingleBodies ==
    { [id |-> "n1", type |-> "file", name |-> "a.txt", parentId |-> "root", content |-> ABC],
      [id |-> "n2", type |-> "file", name |-> "a.txt", parentId |-> "root"],
      [id |-> "n2", type |-> "folder", name |-> "Project A", parentId |-> "root"],
      [id |-> "n3", type |-> "link", name |-> "a.txt", parentId |-> "root"] }

NextSingle ==
    \/ \E c \in Clients, b \in SingleBodies : CreateNodeSingle(c, b)
    \/ \E c \in Clients, fault \in BOOLEAN : CreateNodeFind(c, fault)
    \/ \E c \in Clients, fault \in BOOLEAN : CreateNodeSave(c, fault)
    \/ \E c \in Clients : CreateNodeEmit(c)

SpecSingle == InitSingle /\ [][NextSingle]_vars

(* C25: on the single-tree server no two stored nodes share the same name  *)
(* under the same parent, whatever the interleaving of the createNode      *)
(* requests, and a createNode answered with a conflict has stored nothing. *)
C25_SiblingNamesUnique ==
    /\ \A i, j \in 1..Len(nodes) :
          (nodes[i].name = nodes[j].name /\ nodes[i].parentId = nodes[j].parentId) => i = j
    /\ \A c \in Clients :
          Answered(c, "createNodeSingle", 409) => ~IsDoc(reqs[c].found)

-----------------------------------------------------------------------------
(* C26: when a browser has toggled a folder since it loaded the tree and   *)
(* no setFolderExpanded request for that folder is in flight any more,     *)
(* whatever their answers and order, the flag the browser shows for the    *)
(* folder is the flag stored for it.                                       *)
C26_ClientMatchesServer ==
    \A c \in Clients, id \in ToggleIds :
        ( /\ \E n \in 1..Len(ui[c].log) : ui[c].log[n].id = id
          /\ \A o \in Clients :
                (reqs[o].op = "updateExpanded" /\ reqs[o].id = id) => reqs[o].pc = "done" )
        => Expanded(findNode(ui[c].nodes, id))
             = StoredExpanded(ui[c].currentProjectId, id).expanded

-----------------------------------------------------------------------------
(* GET /api/file/:id : findOne({ id, type: 'file' })                       *)

MockFileText == <<"m">>

GetFile(c, id, fault) ==
    /\ Startable(c)
    /\ LET r == Begin(c, "getFile", "done", Null, id, Null)
           at == FirstIndex(nodes, LAMBDA d : d.id = id /\ d.type = "file")
       IN reqs' = [reqs EXCEPT ![c] =
                     IF ~env.MONGODB_URI
                     THEN Respond(r, 200, [id |-> id, type |-> "file", name |-> "mock-file.txt",
                                           content |-> MockFileText,
                                           projectId |-> "mock-project"])
                     ELSE IF Rejects(fault) THEN Respond(r, 500, Null)
                     ELSE IF at = 0 THEN Respond(r, 404, Null)
                     ELSE Respond(r, 200, nodes[at])]
    /\ UNCHANGED <<nodes, projects, pure, env, ui, editor>>

-----------------------------------------------------------------------------
(* The browser: editorSlice and the components that dispatch to it.  One   *)
(* thunk of the editor is pending at a time; its request is sent when the  *)
(* client's connection is free, and its answer is handed to the reducer in *)
(* a later step.                                                           *)

\* the reducers, on the state e of the slice
openEditor(e, node) ==
    [e EXCEPT !.isOpen = TRUE, !.file = node, !.content = ContentOrEmpty(node),
              !.isDirty = FALSE, !.loading = FALSE]

openEditorAndLoadContent(e, node) ==
    [e EXCEPT !.isOpen = TRUE, !.file = node, !.content = <<>>,
              !.isDirty = FALSE, !.loading = TRUE]

closeEditor(e) ==
    [e EXCEPT !.isOpen = FALSE, !.file = NoDoc, !.content = <<>>,
              !.isDirty = FALSE, !.loading = FALSE]

\* state.isDirty = state.file?.content !== action.payload
updateContent(e, text) ==
    [e EXCEPT !.content = text,
              !.isDirty = ~(IsDoc(e.file) /\ Has(e.file, "content") /\ e.file.content = text)]

saveFileFulfilled(e) ==
    [e EXCEPT !.isDirty = FALSE,
              !.file = IF IsDoc(e.file) THEN SetField(e.file, "content", e.content) ELSE e.file]

loadFileFulfilled(e, payload) ==
    [e EXCEPT !.loading = FALSE, !.content = ContentOrEmpty(payload),
              !.file = IF IsDoc(e.file)
                       THEN SetField(e.file, "content", ContentOrEmpty(payload))
                       ELSE e.file,
              !.isDirty = FALSE]

loadFileRejected(e) == [e EXCEPT !.loading = FALSE]

\* the connection of client c carries no request and no unread answer of
\* the editor
EditorFree(c) == Startable(c) /\ reqs[c].op \notin {"saveFile", "getFile"}

\* handleFileDoubleClick on a file: open it with the content the node
\* carries, or open it empty and load the content.  The open editor covers
\* the canvas, so a node is clicked only while the editor is closed.
HandleFileDoubleClick(c, node) ==
    /\ ~editor[c].isOpen
    /\ node.type = "file"
    /\ IF Has(node, "content")
       THEN editor' = [editor EXCEPT ![c] = openEditor(@, node)]
       ELSE /\ editor[c].thunk.kind = "none"
            /\ editor' = [editor EXCEPT ![c] =
                            [openEditorAndLoadContent(@, node) EXCEPT
                                !.thunk = [NoThunk EXCEPT !.kind = "load", !.id = node.id]]]
    /\ UNCHANGED <<nodes, projects, reqs, pure, env, ui>>

\* handleClose (confirmed when the content is dirty)
HandleClose(c) ==
    /\ editor[c].isOpen
    /\ editor' = [editor EXCEPT ![c] = closeEditor(@)]
    /\ UNCHANGED <<nodes, projects, reqs, pure, env, ui>>

\* handleContentChange
HandleContentChange(c, text) ==
    /\ editor[c].isOpen
    /\ editor[c].content # text
    /\ editor' = [editor EXCEPT ![c] =
                    [updateContent(@, text) EXCEPT
                        !.thunk.edited = @ \/ editor[c].thunk.kind = "save"]]
    /\ UNCHANGED <<nodes, projects, reqs, pure, env, ui>>

\* handleSave, or the auto-save timer: dispatch(saveFileToAPI({ id, content }))
HandleSave(c) ==
    /\ editor[c].isOpen
    /\ IsDoc(editor[c].file)
    /\ editor[c].thunk.kind = "none"
    /\ editor' = [editor EXCEPT ![c].thunk =
                    [kind |-> "save", id |-> editor[c].file.id,
                     content |-> editor[c].content, edited |-> FALSE]]
    /\ UNCHANGED <<nodes, projects, reqs, pure, env, ui>>

\* fileSystemAPI.saveFile(id, content) reaches POST /api/file/:id
SendSaveFile(c, fault) ==
    /\ editor[c].thunk.kind = "save"
    /\ EditorFree(c)
    /\ SaveFile(c, editor[c].thunk.id, [content |-> editor[c].thunk.content], fault)

\* fileSystemAPI.getFile(fileId) reaches GET /api/file/:id
SendGetFile(c, fault) ==
    /\ editor[c].thunk.kind = "load"
    /\ EditorFree(c)
    /\ GetFile(c, editor[c].thunk.id, fault)

\* the answer of the pending thunk is handed to the slice
SaveFileFulfilled(c) ==
    /\ editor[c].thunk.kind = "save"
    /\ Answered(c, "saveFile", 200)
    /\ editor' = [editor EXCEPT ![c] = [saveFileFulfilled(@) EXCEPT !.thunk.kind = "none"]]
    /\ reqs' = [reqs EXCEPT ![c] = IdleReq]
    /\ UNCHANGED <<nodes, projects, pure, env, ui>>

\* saveFileToAPI.rejected has no case in the slice
SaveFileRejected(c) ==
    /\ editor[c].thunk.kind = "save"
    /\ reqs[c].op = "saveFile" /\ reqs[c].pc = "done" /\ reqs[c].status # 200
    /\ editor' = [editor EXCEPT ![c].thunk.kind = "none"]
    /\ reqs' = [reqs EXCEPT ![c] = IdleReq]
    /\ UNCHANGED <<nodes, projects, pure, env, ui>>

LoadFileFulfilled(c) ==
    /\ editor[c].thunk.kind = "load"
    /\ Answered(c, "getFile", 200)
    /\ editor' = [editor EXCEPT ![c] =
                    [loadFileFulfilled(@, reqs[c].out) EXCEPT !.thunk.kind = "none"]]
    /\ reqs' = [reqs EXCEPT ![c] = IdleReq]
    /\ UNCHANGED <<nodes, projects, pure, env, ui>>

LoadFileRejected(c) ==
    /\ editor[c].thunk.kind = "load"
    /\ reqs[c].op = "getFile" /\ reqs[c].pc = "done" /\ reqs[c].status # 200
    /\ editor' = [editor EXCEPT ![c] = [loadFileRejected(@) EXCEPT !.thunk.kind = "none"]]
    /\ reqs' = [reqs EXCEPT ![c] = IdleReq]
    /\ UNCHANGED <<nodes, projects, pure, env, ui>>

(* SpecEditor: one browser loads the demo project, opens its files in the  *)
(* editor, edits, saves and closes.  SpecLoad: it opens files whose        *)
(* content has to be loaded.                                               *)

EditorFileIds == {"app-js", "readme-md"}
EditorTexts == {ABC, <<"a">>}

\* a file node whose content is not in the tree (FileSystemNode.content is
\* optional): the editor loads it
BareFile == [id |-> "readme-md", type |-> "file", name |-> "README.md"]

NextEditor ==
    \/ \E fault \in BOOLEAN :
         /\ EditorFree("A")
         /\ ui["A"].nodes = <<>>
         /\ ListNodes("A", "demo-project", fault)
    \/ FetchFulfilled("A")
    \/ \E id \in EditorFileIds :
         LET node == findNode(ui["A"].nodes, id)
         IN IsDoc(node) /\ HandleFileDoubleClick("A", node)
    \/ HandleClose("A")
    \/ \E text \in EditorTexts : HandleContentChange("A", text)
    \/ HandleSave("A")
    \/ \E fault \in BOOLEAN : SendSaveFile("A", fault)
    \/ SaveFileEmit("A")
    \/ SaveFileFulfilled("A")
    \/ SaveFileRejected("A")

SpecEditor == Init /\ [][NextEditor]_vars

NextLoad ==
    \/ \E fault \in BOOLEAN :
         /\ EditorFree("A")
         /\ ui["A"].nodes = <<>>
         /\ ListNodes("A", "demo-project", fault)
    \/ FetchFulfilled("A")
    \/ \E id \in EditorFileIds :
         LET node == findNode(ui["A"].nodes, id)
         IN IsDoc(node) /\ HandleFileDoubleClick("A", node)
    \/ HandleFileDoubleClick("A", BareFile)
    \/ HandleClose("A")
    \/ \E text \in EditorTexts : HandleContentChange("A", text)
    \/ \E fault \in BOOLEAN : SendGetFile("A", fault)
    \/ LoadFileFulfilled("A")
    \/ LoadFileRejected("A")

SpecLoad == Init /\ [][NextLoad]_vars

\* the content storage holds for the file the server finds under this id
StoredContent(id) ==
    nodes[FirstIndex(nodes, LAMBDA d : d.id = id /\ d.type = "file")].content

(* C27: whenever the editor is open and not dirty and no save or load is   *)
(* pending, its content is the content stored for the open file; so an     *)
(* edit made while a save is pending is not marked as saved when that      *)
(* save is fulfilled.                                                      *)
C27_CleanEditorIsPersisted ==
    \A c \in Clients :
        ( /\ editor[c].isOpen
          /\ ~editor[c].isDirty
          /\ ~editor[c].loading
          /\ editor[c].thunk.kind = "none"
          /\ IsDoc(editor[c].file) )
        => editor[c].content = StoredContent(editor[c].file.id)

-----------------------------------------------------------------------------
(* SpecProject: one browser walks between the projects.  Every visit of a  *)
(* project URL dispatches setCurrentProject and a fetchFileSystemTree; the *)
(* server answers the pending fetches in any order.                        *)

\* the reducer setCurrentProject
setCurrentProject(s, payload) ==
    [s EXCEPT !.currentProjectId = payload,
              !.nodes = IF payload = Null THEN <<>> ELSE @]

MaxFetches == 2

\* the effect of the canvas on a change of its projectId: the reducer, then
\* the thunk, whose pending case runs before the request leaves
ProjectIdChanged(c, projectId) ==
    /\ projectId # ui[c].route
    /\ Len(ui[c].fetches) < MaxFetches
    /\ ui' = [ui EXCEPT ![c] =
                IF projectId # Null
                THEN [setCurrentProject(@, projectId) EXCEPT
                        !.route = projectId, !.loading = TRUE,
                        !.fetches = Append(@, projectId)]
                ELSE [setCurrentProject(@, Null) EXCEPT !.route = Null]]
    /\ UNCHANGED <<nodes, projects, reqs, pure, env, editor>>

\* the request of one of the pending fetches reaches the server
FetchTreeRequest(c, i, fault) ==
    /\ i \in 1..Len(ui[c].fetches)
    /\ reqs[c].pc = "idle"
    /\ ListNodes(c, ui[c].fetches[i], fault)

FetchAt(c) ==
    CHOOSE i \in 1..Len(ui[c].fetches) : ui[c].fetches[i] = reqs[c].pid

\* fetchFileSystemTree.fulfilled
FetchTreeFulfilled(c) ==
    /\ Answered(c, "list", 200)
    /\ ui' = [ui EXCEPT ![c].loading = FALSE,
                        ![c].nodes = reqs[c].out,
                        ![c].currentProjectId = reqs[c].pid,
                        ![c].fetches = RemoveAt(@, FetchAt(c))]
    /\ reqs' = [reqs EXCEPT ![c] = IdleReq]
    /\ UNCHANGED <<nodes, projects, pure, env, editor>>

\* fetchFileSystemTree.rejected
FetchTreeRejected(c) ==
    /\ Answered(c, "list", 500)
    /\ ui' = [ui EXCEPT ![c].loading = FALSE,
                        ![c].fetches = RemoveAt(@, FetchAt(c))]
    /\ reqs' = [reqs EXCEPT ![c] = IdleReq]
    /\ UNCHANGED <<nodes, projects, pure, env, editor>>

\* the data loader of the application dispatched its fetch, without an
\* argument, when the page was mounted
InitProject ==
    /\ nodes = initializeDefaultFileSystem
    /\ projects = defaultProjects
    /\ reqs = [c \in Clients |-> IdleReq]
    /\ env = Connected
    /\ ui = [c \in Clients |->
               [initialState EXCEPT !.loading = TRUE, !.fetches = <<Undefined>>]]
    /\ editor = [c \in Clients |-> editorInitialState]
    /\ pure = NoPure

Routes == ProjectIds \cup {Null}

NextProject ==
    \/ \E p \in Routes : ProjectIdChanged("A", p)
    \/ \E i \in 1..MaxFetches, fault \in BOOLEAN : FetchTreeRequest("A", i, fault)
    \/ FetchTreeFulfilled("A")
    \/ FetchTreeRejected("A")

SpecProject == InitProject /\ [][NextProject]_vars

\* every node of a tree carries the projectId
RECURSIVE AllOfProject(_, _)
AllOfProject(treeNodes, projectId) ==
    \A n \in 1..Len(treeNodes) :
        /\ Has(treeNodes[n], "projectId")
        /\ treeNodes[n].projectId = projectId
        /\ Has(treeNodes[n], "children") => AllOfProject(treeNodes[n].children, projectId)

\* null and undefined both say that no project is selected
SameProject(p, q) == p = q \/ (~Truthy(p) /\ ~Truthy(q))

\* C29: right after setCurrentProject(p) no node of another project is left
\* in state.nodes, and once no fetchFileSystemTree is pending, state.nodes
\* and currentProjectId are those of the project selected last.
C29_NodesOfSelectedProject ==
    [][\A c \in Clients :
         /\ ui'[c].route # ui[c].route
            => AllOfProject(ui'[c].nodes, ui'[c].route)
         /\ ui'[c].fetches = <<>>
            => /\ SameProject(ui'[c].currentProjectId, ui'[c].route)
               /\ AllOfProject(ui'[c].nodes, ui'[c].route)]_vars

-----------------------------------------------------------------------------
(* SpecParents: createNode with ids and parents of the client's choosing,  *)
(* and replaceProjectTree, one request at a time.                          *)

\* a folder that names itself as parent, and two folders that name each other
ParentBodies ==
    { FolderBody("loop", "loop"), FolderBody("p1", "p2"), FolderBody("p2", "p1") }

NextParents ==
    \/ \E fault \in BOOLEAN :
         /\ AllIdle
         /\ \/ \E b \in ParentBodies : CreateNode("A", "default-project", b, fault)
            \/ SaveTree("A", "default-project", TreeBody(Tree3), fault)
    \/ SaveTreeInsert("A")
    \/ SaveTreeCommit("A")
    \/ SaveTreeEmit("A")
    \/ StorageFault("A")

SpecParents == Init /\ [][NextParents]_vars

\* C30: in every state of the store the parent relation of each project is
\* acyclic: following parentId from a node never comes back to that node.
C30_ParentsAcyclic ==
    \A p \in ProjectIds : Acyclic(ProjectDocs(nodes, p))

=============================================================================
